---- MODULE Spec2Model ----
(***************************************************************************)
(* Model of the ingestion pipeline of the DocChat API:                     *)
(*   - POST /ingest-crawl (routes/crawl.js): the crawl session             *)
(*   - upsertVectors (pinecone.js): batched, retried vector writes         *)
(*   - cleanUrl, isHttpUrl, clampInt, chunk, withRetry (utilities.js)      *)
(* One action per piece of code that runs between two awaits.              *)
(***************************************************************************)
EXTENDS Integers, Sequences, FiniteSets, TLC

VARIABLES
    pc,              \* position of the /ingest-crawl handler
    response,        \* what the handler answered: "none", "ok", "400", "500"
    pathPrefix,      \* normalised pathPrefix (<<>> is undefined)
    maxDepth,        \* clamped maxDepth
    maxPages,        \* clamped maxPages
    delayMs,         \* clamped delayMs
    seen,            \* const seen = new Set()
    q,               \* const q = [{url, depth}]
    crawled,         \* let crawled
    upserted,        \* let upserted
    cur,             \* { url, depth } of the task being processed
    chunks,          \* const chunks = chunkText(text, 1200, 150) of the page being processed
    fetchLog,        \* history: every fetchHtml call, in order
    sleptSinceFetch, \* history: a politeness sleep ended since the last fetchHtml call
    startUrl,        \* the startUrl of the request body
    now,             \* the last reading of Date.now(), in ms since the request arrived
    built,           \* history: the ids of the vectors built, in order
    enq,             \* history: every task pushed to q
    inFlight,        \* history: the remote calls started and not yet settled
    uState,          \* position of upsertVectors
    uVectors,        \* its vectors argument
    uIdx,            \* index of the batch being sent (1-based)
    uAttempt,        \* withRetry's attempt
    uTotal,          \* let total
    uCalls,          \* history: every index.upsert(batch) call, in order
    uIndex,          \* const index: the namespace the calls of upsertVectors go to
    namespace,       \* the namespace field of the /ingest-crawl request
    store,           \* the vector store: the (namespace, id) pairs it accepted
    nsUsed,          \* history: the namespace of every index.upsert call
    rState,          \* withRetry: "idle", "calling", "sleeping", "returned", "thrown"
    rTries,          \* withRetry: tries
    rBaseDelayMs,    \* withRetry: baseDelayMs
    rJitter,         \* withRetry: jitter
    rOnRetry,        \* withRetry: an onRetry function was passed
    rAttempt,        \* withRetry: attempt
    rLastErr,        \* withRetry: lastErr (0 is undefined, i the error of invocation i)
    rOut,            \* withRetry: the value returned or the error thrown
    rCalls,          \* history: the invocations of fn, in order
    rSleeps,         \* history: the delays passed to sleep, in order
    rNotified,       \* history: the arguments of the onRetry calls, in order
    sState,          \* scrapeText: "idle", "fastPath", "launching", "navigating",
                     \* "evaluating", "content", "closing", "returned", "thrown"
    sUrl,            \* scrapeText: url
    sFast,           \* history: how fetchViaHttp ended in this call
    sFallback,       \* history: fetchViaBrowser was called in this call
    sPending,        \* fetchViaBrowser: the completion its finally block holds back
    sOut,            \* scrapeText: the text returned or the error thrown
    browsers,        \* the browsers launched and not yet closed
    sLaunched,       \* history: the browsers chromium.launch has started
    sRequests,       \* the /scrape requests received
    fnArgs,          \* the arguments of a utility function called on its own
    fnResult,        \* what that call returned
    active,          \* which of the two /ingest-crawl handlers is running: 1 or 2
    parked           \* the locals of the other handler, suspended at an await

vars == <<pc, response, pathPrefix, maxDepth, maxPages, delayMs, seen, q, crawled,
          upserted, cur, chunks, fetchLog, sleptSinceFetch,
          startUrl, now, built, enq, inFlight,
          uState, uVectors, uIdx, uAttempt, uTotal, uCalls, uIndex,
          namespace, store, nsUsed,
          rState, rTries, rBaseDelayMs, rJitter, rOnRetry, rAttempt, rLastErr, rOut,
          rCalls, rSleeps, rNotified,
          sState, sUrl, sFast, sFallback, sPending, sOut, browsers, sLaunched, sRequests,
          fnArgs, fnResult, active, parked>>

sessionVars == <<active, parked>>

crawlVars == <<pc, response, pathPrefix, maxDepth, maxPages, delayMs, seen, q, crawled,
               upserted, cur, chunks, fetchLog, sleptSinceFetch, namespace,
                   startUrl, now, built, enq, inFlight>>

upsertVars == <<uState, uVectors, uIdx, uAttempt, uTotal, uCalls, uIndex>>

storeVars == <<store, nsUsed>>

fnVars == <<fnArgs, fnResult>>

scrapeVars == <<sState, sUrl, sFast, sFallback, sPending, sOut, browsers, sLaunched,
                sRequests>>

retryVars == <<rState, rTries, rBaseDelayMs, rJitter, rOnRetry, rAttempt, rLastErr, rOut,
               rCalls, rSleeps, rNotified>>

(***************************************************************************)
(* Bounds of the model.                                                    *)
(***************************************************************************)
MaxLinks == 2        \* <a href> elements per page
MaxDepthIn == 2      \* largest maxDepth a request carries
MaxPagesIn == 2      \* largest maxPages a request carries
MaxChunks == 2       \* chunks of a page with text in a crawl
MaxVectors == 250    \* vectors per direct upsertVectors call
MaxTries == 3        \* largest tries option passed to withRetry
MaxRequests == 2     \* /scrape requests served one after another
MaxRuns == 3         \* runs of equal characters in a text given to chunkText
MaxWindow == 4       \* maxChars of a chunkText call on a short text
MaxIter == 8         \* iterations of the loop of chunkText that are followed
MaxParams == 2       \* query parameters of an address passed to cleanUrl

(***************************************************************************)
(* Addresses.  A parsed URL is a record; a path is its sequence of         *)
(* characters, "d" and "x" standing for letters.                           *)
(***************************************************************************)
Url(proto, host, path, query, hash) ==
    [proto |-> proto, host |-> host, path |-> path, query |-> query, hash |-> hash]

\* a query parameter: name and value
Param(k, v) == [k |-> k, v |-> v]

\* u.origin: scheme + host + port
Origin(u) == <<u.proto, u.host>>

\* String.prototype.startsWith / endsWith on sequences of characters
StartsWith(s, p) == Len(p) <= Len(s) /\ SubSeq(s, 1, Len(p)) = p
EndsWith(s, c) == Len(s) > 0 /\ s[Len(s)] = c

DEFAULT_STRIP_PARAMS == {"utm_source", "utm_medium", "utm_campaign", "utm_term",
                         "utm_content", "gclid", "fbclid"}

\* isHttpUrl: new URL(str) parses and the protocol is http: or https:
isHttpUrl(u) == u.proto \in {"http:", "https:"}

RECURSIVE DropTrailingSlashes(_)
DropTrailingSlashes(p) ==
    IF EndsWith(p, "/") THEN DropTrailingSlashes(SubSeq(p, 1, Len(p) - 1)) ELSE p

\* mutant of CollapseTrailingSlashes: one trailing slash is dropped
DropOneSlash(p) == SubSeq(p, 1, Len(p) - 1)

\* pathname.replace(/\/+$/, "/")
CollapseTrailingSlashes(p) == DropTrailingSlashes(p) \o <<"/">>

\* mutant of StripQuery: only the first occurrence of a name is deleted
StripQueryFirst(query, stripParams) ==
    LET marked == [i \in 1..Len(query) |->
                     [p |-> query[i],
                      drop |-> query[i].k \in stripParams
                               /\ \A j \in 1..(i - 1) : query[j].k # query[i].k]]
        kept == SelectSeq(marked, LAMBDA e : ~e.drop)
    IN  [i \in 1..Len(kept) |-> kept[i].p]

\* url.searchParams.delete(k) for every key k in stripParams
StripQuery(query, stripParams) == SelectSeq(query, LAMBDA p : p.k \notin stripParams)

\* cleanUrl(u, { stripParams }): the hash is cleared, the parameters named in
\* stripParams are deleted, a run of trailing slashes becomes one slash
cleanUrlOpt(u, stripParams) ==
    [u EXCEPT !.hash = FALSE,
              !.query = StripQuery(u.query, stripParams),
              !.path = IF u.path # <<"/">> /\ EndsWith(u.path, "/")
                       THEN CollapseTrailingSlashes(u.path)
                       ELSE u.path]

\* cleanUrl(u), stripParams = DEFAULT_STRIP_PARAMS
cleanUrl(u) == cleanUrlOpt(u, DEFAULT_STRIP_PARAMS)


(***************************************************************************)
(* The request bodies and the pages of the modelled web.                   *)
(***************************************************************************)
NoUrl == Url("", "", <<>>, <<>>, FALSE)
NoTask == [url |-> NoUrl, depth |-> 0]

\* startUrl values: an https address with a tracking parameter and a fragment,
\* a string that is no http(s) address, and a missing value
SeedIn == Url("https:", "a", <<"/", "d">>, <<Param("utm_source", "1")>>, TRUE)
StartUrlIn == {SeedIn, Url("mailto:", "a", <<"x">>, <<>>, FALSE), NoUrl}

\* the startUrl field of a crawl request: its typeof and, for a string (or what
\* an array of one string would stringify to), the address it spells
StartUrl(type, url) == [type |-> type, url |-> url]
NoStartUrl == StartUrl("undefined", NoUrl)

\* startUrl values of a crawl request: the seed, "mailto:a", the relative
\* string "/d", the empty string, the array ["https://a/d"], a missing value
CrawlStartIn ==
    {StartUrl("string", u) : u \in StartUrlIn}
    \cup {StartUrl("string", Url("", "", <<"/", "d">>, <<>>, FALSE)),
          StartUrl("object", SeedIn), NoStartUrl}

\* the default pathPrefix, "/docs"
DefaultPathPrefix == <<"/", "d">>

\* pathPrefix values of a request: missing ("default"), "", "d", "/d//"
PathPrefixIn == {<<"default">>, <<>>, <<"d">>, <<"/", "d", "/", "/">>}

\* an optional string: undefined, or the string s
Undefined == [defined |-> FALSE, s |-> ""]
Str(s) == [defined |-> TRUE, s |-> s]

\* namespace values of a request: missing, "", "n1"
NamespaceIn == {Undefined, Str(""), Str("n1")}

\* a value of a JSON body or an argument; a number is kept in tenths, n10
Value(kind, n10) == [kind |-> kind, n10 |-> n10]
Missing == Value("undefined", 0)
Null == Value("null", 0)
Infinite == Value("inf", 0)          \* 1e999
NonNumeric == Value("str", 0)        \* "abc"
NumStr(n10) == Value("numstr", n10)  \* "2.7"
Bool(b) == Value("bool", IF b THEN 10 ELSE 0)

\* a numeric request field: the integer n
Num(n) == Value("number", n * 10)

\* Number(val): a finite number in tenths, or NaN / Infinity
NaN == [finite |-> FALSE, n10 |-> 0]
Number(val) ==
    CASE val.kind \in {"number", "numstr", "bool"} -> [finite |-> TRUE, n10 |-> val.n10]
      [] val.kind = "null" -> [finite |-> TRUE, n10 |-> 0]
      [] OTHER -> NaN
DepthIn == {Num(n) : n \in 0..MaxDepthIn}
PagesIn == {Num(n) : n \in 1..MaxPagesIn}
DelayIn == {Num(0), Num(200)}

\* the absolute addresses the <a href> elements of a page resolve to
Hrefs == {
    Url("https:", "a", <<"/", "d", "/", "x">>, <<Param("fbclid", "1")>>, TRUE),
    Url("https:", "a", <<"/", "d", "/", "/">>, <<>>, FALSE),
    Url("https:", "b", <<"/", "d", "/", "x">>, <<>>, FALSE),
    Url("https:", "a", <<"/", "d">>, <<Param("gclid", "1")>>, FALSE) }

\* the href lists of a page, in document order
RECURSIVE SeqsUpTo(_, _)
SeqsUpTo(S, n) ==
    IF n = 0 THEN {<<>>}
    ELSE LET shorter == SeqsUpTo(S, n - 1)
         IN  shorter \cup {Append(s, x) : s \in {t \in shorter : Len(t) = n - 1}, x \in S}

Pages == SeqsUpTo(Hrefs, MaxLinks)

(***************************************************************************)
(* utilities.js                                                            *)
(***************************************************************************)
Max(a, b) == IF a >= b THEN a ELSE b
Min(a, b) == IF a <= b THEN a ELSE b

\* mutant of Trunc: Math.round
TruncRound(n10) == IF n10 >= 0 THEN (n10 + 5) \div 10 ELSE -((-n10 + 4) \div 10)

\* Math.trunc of a number in tenths
Trunc(n10) == IF n10 >= 0 THEN n10 \div 10 ELSE -((-n10) \div 10)

\* clampInt(val, { min, max, fallback })
clampInt(val, min, max, fallback) ==
    LET n == Number(val)
    IN  IF ~n.finite THEN fallback ELSE Max(min, Min(max, Trunc(n.n10)))

\* a destructuring default: `field = d` applies when the field is undefined
OrElse(val, d) == IF val.kind = "undefined" THEN Num(d) ELSE val

\* scrape.js lines 155-157 and 173-175: the defaults and the clamping
CrawlConfig(depthIn, pagesIn, delayIn) ==
    [maxDepth |-> clampInt(OrElse(depthIn, 1), 0, 6, 1),
     maxPages |-> clampInt(OrElse(pagesIn, 50), 1, 1000, 50),
     delayMs |-> clampInt(OrElse(delayIn, 200), 0, 5000, 200)]

(***************************************************************************)
(* crawl.js: discoverLinks                                                 *)
(***************************************************************************)
\* mutant of LinkInScope: the same-origin test is missing
LinkInScopeAnyOrigin(u, baseUrl, prefix) ==
    /\ u.proto \in {"http:", "https:"}
    /\ (prefix # <<>> => StartsWith(u.path, prefix))

\* lines 118-122: the filters a resolved link passes to be kept
LinkInScope(u, baseUrl, prefix) ==
    /\ u.proto \in {"http:", "https:"}
    /\ Origin(u) = Origin(baseUrl)
    /\ (prefix # <<>> => StartsWith(u.path, prefix))

\* Array.from(new Set(...)): first occurrences, in insertion order
RECURSIVE Distinct(_)
Distinct(s) ==
    IF s = <<>> THEN <<>>
    ELSE LET front == SubSeq(s, 1, Len(s) - 1)
             last == s[Len(s)]
             d == Distinct(front)
         IN  IF \E i \in 1..Len(d) : d[i] = last THEN d ELSE Append(d, last)

discoverLinks(html, baseUrl, prefix) ==
    LET kept == SelectSeq(html, LAMBDA u : LinkInScope(u, baseUrl, prefix))
    IN  Distinct([i \in 1..Len(kept) |-> cleanUrl(kept[i])])


(***************************************************************************)
(* pinecone.js: upsertVectors, with utilities.js chunk and withRetry       *)
(***************************************************************************)
BatchSize == 100     \* chunk(vectors, 100)
RetryTries == 3      \* { tries: 3, baseDelayMs: 300 }

\* mutant of chunk: slices end one element early, arr.slice(i, i + size - 1)
RECURSIVE chunkShortFrom(_, _, _)
chunkShortFrom(arr, size, i) ==
    IF i < Len(arr)
    THEN <<SubSeq(arr, i + 1, Min(i + size - 1, Len(arr)))>> \o chunkShortFrom(arr, size, i + size)
    ELSE <<>>

chunkShort(arr, size) == chunkShortFrom(arr, size, 0)

\* chunk(arr, size): for (i = 0; i < arr.length; i += size) out.push(arr.slice(i, i + size))
RECURSIVE chunkFrom(_, _, _)
chunkFrom(arr, size, i) ==
    IF i < Len(arr)
    THEN <<SubSeq(arr, i + 1, Min(i + size, Len(arr)))>> \o chunkFrom(arr, size, i + size)
    ELSE <<>>

chunk(arr, size) == chunkFrom(arr, size, 0)

\* line 44: !v?.id || !Array.isArray(v.values) || v.values.length === 0
InvalidVector(v) == v.id = <<>> \/ v.values = <<>>

\* const batches = chunk(vectors, 100)
Batches == chunk(uVectors, BatchSize)

\* process.env.PINECONE_NAMESPACE of the deployment
PINECONE_NAMESPACE == Str("env")

\* getIndexForNamespace(ns): (ns ?? PINECONE_NAMESPACE) || undefined picks
\* baseIndex.namespace(x), or baseIndex, whose namespace is the default one, ""
getIndexForNamespace(ns) ==
    LET chosen == IF ns.defined THEN ns ELSE PINECONE_NAMESPACE
    IN  IF chosen.defined /\ chosen.s # "" THEN chosen.s ELSE ""

\* withRetry line 229: attempts remain after a failure
AttemptsRemain(attempt, tries) == attempt < tries

\* mutant of Validated: only the vectors of the first batch are validated
ValidatedFirstBatch(vectors) == 1..Min(Len(vectors), BatchSize)

\* lines 41-47: the validation loop runs over every vector before line 49
Validated(vectors) == 1..Len(vectors)

\* lines 37-52: the empty-input return, the validation, and the first remote call
UpsertEnter(vectors, ns) ==
    /\ uVectors' = vectors
    /\ uIndex' = getIndexForNamespace(ns)
    /\ uCalls' = <<>>
    /\ uTotal' = 0
    /\ uIdx' = 1
    /\ uAttempt' = 1
    /\ uState' = IF Len(vectors) = 0 THEN "returned"
                 ELSE IF \E i \in Validated(vectors) : InvalidVector(vectors[i]) THEN "thrown"
                 ELSE "calling"

\* index.upsert(batch) resolves: total += batch.length, next batch or return
UpsertCallOk ==
    /\ uState = "calling"
    /\ uCalls' = Append(uCalls, [batch |-> Batches[uIdx], attempt |-> uAttempt, ok |-> TRUE])
    /\ uTotal' = uTotal + Len(Batches[uIdx])
    /\ IF uIdx < Len(Batches)
       THEN uIdx' = uIdx + 1 /\ uAttempt' = 1 /\ uState' = "calling"
       ELSE uIdx' = uIdx /\ uAttempt' = uAttempt /\ uState' = "returned"
    /\ store' = store \cup {[ns |-> uIndex, id |-> Batches[uIdx][i].id] :
                                i \in 1..Len(Batches[uIdx])}
    /\ nsUsed' = nsUsed \cup {uIndex}
    /\ UNCHANGED <<uVectors, uIndex>>
    /\ UNCHANGED crawlVars
    /\ UNCHANGED retryVars
    /\ UNCHANGED scrapeVars
    /\ UNCHANGED fnVars
    /\ UNCHANGED sessionVars

\* mutant of StoreAfterFailure: the batches of the call are deleted again
StoreRolledBack == store \ {[ns |-> uIndex, id |-> uVectors[i].id] : i \in 1..Len(uVectors)}

\* lines 53-56: a rejected batch is followed by no delete or other call
StoreAfterFailure == store

\* index.upsert(batch) rejects: withRetry sleeps if attempts remain, else throws
UpsertCallFails ==
    /\ uState = "calling"
    /\ uCalls' = Append(uCalls, [batch |-> Batches[uIdx], attempt |-> uAttempt, ok |-> FALSE])
    /\ uState' = IF AttemptsRemain(uAttempt, RetryTries) THEN "backoff" ELSE "thrown"
    /\ store' = StoreAfterFailure
    /\ nsUsed' = nsUsed \cup {uIndex}
    /\ UNCHANGED <<uVectors, uIdx, uAttempt, uTotal, uIndex>>
    /\ UNCHANGED crawlVars
    /\ UNCHANGED retryVars
    /\ UNCHANGED scrapeVars
    /\ UNCHANGED fnVars
    /\ UNCHANGED sessionVars

\* withRetry's sleep ends: the next attempt of the same batch
UpsertBackoffDone ==
    /\ uState = "backoff"
    /\ uAttempt' = uAttempt + 1
    /\ uState' = "calling"
    /\ UNCHANGED <<uVectors, uIdx, uTotal, uCalls, uIndex>>
    /\ UNCHANGED crawlVars
    /\ UNCHANGED storeVars
    /\ UNCHANGED retryVars
    /\ UNCHANGED scrapeVars
    /\ UNCHANGED fnVars
    /\ UNCHANGED sessionVars

\* the vectors of a direct call: n vectors with ids 1..n, the one at `bad` malformed
MkVectors(n, bad) ==
    [i \in 1..n |-> [id |-> <<i>>, values |-> IF i = bad THEN <<>> ELSE <<1>>]]

\* n vectors of which the one at `bad` has an empty id
MkVectorsNoId(n, bad) ==
    [i \in 1..n |-> [id |-> IF i = bad THEN <<>> ELSE <<i>>, values |-> <<1>>]]

\* the positions of a malformed vector: none, the first, the first of the second
\* batch, the last
BadAt(n) == {0, 1, BatchSize + 1, n}

VectorsIn ==
    {MkVectors(n, bad) : n \in 0..MaxVectors, bad \in {0, 1}}
    \cup {MkVectors(n, bad) : n \in {MaxVectors}, bad \in BadAt(MaxVectors)}
    \cup {MkVectorsNoId(n, bad) : n \in {MaxVectors}, bad \in BadAt(MaxVectors)}

\* a caller other than the crawl (/ingest-one, /ingest-url-chunks) calls upsertVectors
CallUpsertVectors ==
    /\ pc = "caller"
    /\ uState = "idle"
    /\ \E vectors \in VectorsIn, ns \in NamespaceIn : UpsertEnter(vectors, ns)
    /\ UNCHANGED crawlVars
    /\ UNCHANGED storeVars
    /\ UNCHANGED retryVars
    /\ UNCHANGED scrapeVars
    /\ UNCHANGED fnVars
    /\ UNCHANGED sessionVars

UpsertIdle ==
    /\ uState' = "idle"
    /\ uVectors' = <<>>
    /\ uCalls' = <<>>
    /\ uTotal' = 0
    /\ uIdx' = 1
    /\ uAttempt' = 1
    /\ uIndex' = ""

(***************************************************************************)
(* utilities.js: withRetry(fn, { tries, baseDelayMs, jitter, onRetry })    *)
(* The i-th invocation of fn resolves to the value i or rejects with the   *)
(* error i.                                                                *)
(***************************************************************************)
DefaultTries == 3          \* tries = 3
DefaultBaseDelayMs == 250  \* baseDelayMs = 250

\* an optional numeric option: missing, or the number n
NoOpt == [given |-> FALSE, n |-> 0]
Given(n) == [given |-> TRUE, n |-> n]
OrDefault(opt, default) == IF opt.given THEN opt.n ELSE default

TriesIn == {NoOpt} \cup {Given(n) : n \in 0..MaxTries}
BaseDelayIn == {NoOpt, Given(300)}

\* Math.random(), in hundredths
RandomIn == {0, 50, 99}

RECURSIVE Pow2(_)
Pow2(n) == IF n <= 0 THEN 1 ELSE 2 * Pow2(n - 1)

\* mutant of Backoff: the delay does not grow
BackoffFlat(baseDelayMs, attempt) == baseDelayMs

\* line 230: baseDelayMs * Math.pow(2, attempt - 1)
Backoff(baseDelayMs, attempt) == baseDelayMs * Pow2(attempt - 1)

\* lines 231, 239: Math.round(jitter ? backoff * (0.8 + random * 0.4) : backoff)
Delay(backoff, jitter, random) ==
    IF jitter THEN (backoff * (800 + 4 * random) + 500) \div 1000 ELSE backoff

\* mutant of LoopContinues: the last attempt is not made
LoopStopsEarly(attempt, tries) == attempt < tries

\* line 224: attempt <= tries
LoopContinues(attempt, tries) == attempt <= tries

\* mutant of Resolved: the value of the first invocation is returned
ResolvedFirst(calls) == calls[1].val

\* line 226: return await fn()
Resolved(calls) == calls[Len(calls)].val

\* lines 219-224: the options are destructured and the loop is entered
CallWithRetry ==
    /\ pc = "retry"
    /\ rState = "idle"
    /\ \E tries \in TriesIn, baseDelayMs \in BaseDelayIn, jitter \in BOOLEAN,
          onRetry \in BOOLEAN :
          /\ rTries' = OrDefault(tries, DefaultTries)
          /\ rBaseDelayMs' = OrDefault(baseDelayMs, DefaultBaseDelayMs)
          /\ rJitter' = jitter
          /\ rOnRetry' = onRetry
          /\ rState' = IF LoopContinues(1, OrDefault(tries, DefaultTries))
                       THEN "calling" ELSE "thrown"
    /\ rAttempt' = 1
    /\ UNCHANGED <<rLastErr, rOut, rCalls, rSleeps, rNotified>>
    /\ UNCHANGED <<crawlVars, upsertVars, storeVars, scrapeVars, fnVars>>
    /\ UNCHANGED sessionVars

\* line 226: fn() resolves, withRetry returns its value
RetryCallOk ==
    /\ rState = "calling"
    /\ LET calls == Append(rCalls, [attempt |-> rAttempt, ok |-> TRUE,
                                    val |-> Len(rCalls) + 1])
       IN  /\ rCalls' = calls
           /\ rOut' = Resolved(calls)
    /\ rState' = "returned"
    /\ UNCHANGED <<rTries, rBaseDelayMs, rJitter, rOnRetry, rAttempt, rLastErr,
                   rSleeps, rNotified>>
    /\ UNCHANGED <<crawlVars, upsertVars, storeVars, scrapeVars, fnVars>>
    /\ UNCHANGED sessionVars

\* lines 227-243: fn() rejects; with attempts left the delay is computed,
\* onRetry is told and the sleep starts, otherwise the loop ends and lastErr
\* is thrown
RetryCallFails ==
    /\ rState = "calling"
    /\ rCalls' = Append(rCalls, [attempt |-> rAttempt, ok |-> FALSE,
                                 val |-> Len(rCalls) + 1])
    /\ rLastErr' = Len(rCalls) + 1
    /\ IF AttemptsRemain(rAttempt, rTries)
       THEN \E random \in RandomIn :
              LET delay == Delay(Backoff(rBaseDelayMs, rAttempt), rJitter, random)
              IN  /\ rNotified' = IF rOnRetry
                                  THEN Append(rNotified, [attempt |-> rAttempt,
                                                          error |-> Len(rCalls) + 1,
                                                          delay |-> delay])
                                  ELSE rNotified
                  /\ rSleeps' = Append(rSleeps, delay)
                  /\ rState' = "sleeping"
                  /\ UNCHANGED <<rAttempt, rOut>>
       ELSE /\ rAttempt' = rAttempt + 1
            /\ rState' = IF LoopContinues(rAttempt + 1, rTries) THEN "calling" ELSE "thrown"
            /\ rOut' = IF LoopContinues(rAttempt + 1, rTries) THEN rOut ELSE Len(rCalls) + 1
            /\ UNCHANGED <<rSleeps, rNotified>>
    /\ UNCHANGED <<rTries, rBaseDelayMs, rJitter, rOnRetry>>
    /\ UNCHANGED <<crawlVars, upsertVars, storeVars, scrapeVars, fnVars>>
    /\ UNCHANGED sessionVars

\* line 239 resolves: attempt++, the loop test, the next invocation or the throw
RetrySleepDone ==
    /\ rState = "sleeping"
    /\ rAttempt' = rAttempt + 1
    /\ rState' = IF LoopContinues(rAttempt + 1, rTries) THEN "calling" ELSE "thrown"
    /\ rOut' = IF LoopContinues(rAttempt + 1, rTries) THEN rOut ELSE rLastErr
    /\ UNCHANGED <<rTries, rBaseDelayMs, rJitter, rOnRetry, rLastErr, rCalls,
                   rSleeps, rNotified>>
    /\ UNCHANGED <<crawlVars, upsertVars, storeVars, scrapeVars, fnVars>>
    /\ UNCHANGED sessionVars

(***************************************************************************)
(* scraper.js: scrapeText, fetchViaHttp, fetchViaBrowser, and the /scrape  *)
(* route that calls scrapeText.  A text is the number of its characters    *)
(* once every whitespace run is one space, and the number of further       *)
(* whitespace characters in it.                                            *)
(***************************************************************************)
MinFastLen == 200      \* text.length >= 200
MinVisibleLen == 200   \* visible.replace(/\s+/g, " ").length > 200

Text(chars, extraWs) == [chars |-> chars, extraWs |-> extraWs]
Length(t) == t.chars + t.extraWs

\* str.replace(/\s+/g, " ")
CollapseWs(t) == Text(t.chars, 0)

\* how a call ended: it returned a text, or it threw
Got(t) == [threw |-> FALSE, text |-> t]
Threw == [threw |-> TRUE, text |-> Text(0, 0)]
NoOutcome == [threw |-> FALSE, text |-> Text(0, 0)]

\* cleanText(html) of the response body: "", 199 and 200 characters
FastTexts == {Text(0, 0), Text(199, 0), Text(200, 0)}
\* the trimmed innerText: "", 200 characters and 50 more of whitespace, 201
VisibleTexts == {Text(0, 0), Text(200, 50), Text(201, 0)}
\* cleanText(page.content()): "", 150 characters
ContentTexts == {Text(0, 0), Text(150, 0)}

\* mutant of GoodEnough: any text of the fast path is returned
GoodEnoughAny(text) == TRUE

\* line 112: text && text.length >= 200
GoodEnough(text) == Length(text) > 0 /\ Length(text) >= MinFastLen

\* line 81: visible && visible.replace(/\s+/g, " ").length > 200
VisibleEnough(visible) ==
    Length(visible) > 0 /\ Length(CollapseWs(visible)) > MinVisibleLen

\* mutant of AfterBrowserError: the browser is closed on the normal path only
AfterBrowserErrorNoFinally == "thrown"

\* lines 42, 88-90: an error inside the try block runs the finally block
AfterBrowserError == "closing"

\* mutant of RouteStatus: the route does not test the text
RouteStatusNoTest(out) == IF out.threw THEN "500" ELSE "200"

\* scrape.js lines 35-60: 500 from the catch block, 422 for no text, 200
RouteStatus(out) ==
    IF out.threw THEN "500"
    ELSE IF Length(out.text) = 0 THEN "422"
    ELSE "200"

\* lines 102-111: the URL test, cleanUrl, and the call of fetchViaHttp
ScrapeEnter(rawUrl) ==
    /\ sFast' = NoOutcome
    /\ sFallback' = FALSE
    /\ sPending' = NoOutcome
    /\ IF rawUrl = NoUrl \/ ~isHttpUrl(rawUrl)
       THEN sState' = "thrown" /\ sOut' = Threw /\ sUrl' = NoUrl
       ELSE sState' = "fastPath" /\ sOut' = NoOutcome /\ sUrl' = cleanUrl(rawUrl)
    /\ UNCHANGED <<browsers, sLaunched>>

\* scrape.js lines 16-35: the /scrape route tests the url and calls scrapeText
ScrapeRequest ==
    /\ pc = "scrapeIdle"
    /\ sRequests < MaxRequests
    /\ sRequests' = sRequests + 1
    /\ \E urlRaw \in StartUrlIn :
          IF urlRaw = NoUrl \/ ~isHttpUrl(urlRaw)
          THEN /\ response' = "400"
               /\ pc' = "scrapeIdle"
               /\ UNCHANGED <<sState, sUrl, sFast, sFallback, sPending, sOut,
                              browsers, sLaunched>>
          ELSE /\ response' = "none"
               /\ pc' = "scrapeWait"
               /\ ScrapeEnter(cleanUrl(urlRaw))
    /\ UNCHANGED <<pathPrefix, maxDepth, maxPages, delayMs, seen, q, crawled, upserted,
                   cur, chunks, fetchLog, sleptSinceFetch, namespace,
                   startUrl, now, built, enq, inFlight>>
    /\ UNCHANGED <<upsertVars, storeVars, retryVars, fnVars>>
    /\ UNCHANGED sessionVars

\* lines 111-112, 118: fetchViaHttp returns the cleaned text
FastPathReturns ==
    /\ sState = "fastPath"
    /\ \E text \in FastTexts :
          /\ sFast' = Got(text)
          /\ IF GoodEnough(text)
             THEN sState' = "returned" /\ sOut' = Got(text) /\ sFallback' = FALSE
             ELSE sState' = "launching" /\ sOut' = sOut /\ sFallback' = TRUE
    /\ UNCHANGED <<sUrl, sPending, browsers, sLaunched, sRequests>>
    /\ UNCHANGED <<crawlVars, upsertVars, storeVars, retryVars, fnVars>>
    /\ UNCHANGED sessionVars

\* lines 113-118: fetchViaHttp throws (timeout, status, content type): the
\* catch block warns and fetchViaBrowser is called
FastPathThrows ==
    /\ sState = "fastPath"
    /\ sFast' = Threw
    /\ sFallback' = TRUE
    /\ sState' = "launching"
    /\ UNCHANGED <<sUrl, sPending, sOut, browsers, sLaunched, sRequests>>
    /\ UNCHANGED <<crawlVars, upsertVars, storeVars, retryVars, fnVars>>
    /\ UNCHANGED sessionVars

\* lines 37-40: chromium.launch rejects, outside the try block
LaunchFails ==
    /\ sState = "launching"
    /\ sState' = "thrown"
    /\ sOut' = Threw
    /\ UNCHANGED <<sUrl, sFast, sFallback, sPending, browsers, sLaunched, sRequests>>
    /\ UNCHANGED <<crawlVars, upsertVars, storeVars, retryVars, fnVars>>
    /\ UNCHANGED sessionVars

\* lines 37-42: chromium.launch resolves, the try block is entered
LaunchOk ==
    /\ sState = "launching"
    /\ browsers' = browsers + 1
    /\ sLaunched' = sLaunched + 1
    /\ sState' = "navigating"
    /\ UNCHANGED <<sUrl, sFast, sFallback, sPending, sOut, sRequests>>
    /\ UNCHANGED <<crawlVars, upsertVars, storeVars, retryVars, fnVars>>
    /\ UNCHANGED sessionVars

\* lines 43-73: newContext, newPage, route and goto resolve; waitForSelector
\* resolves or its rejection is swallowed
NavigateOk ==
    /\ sState = "navigating"
    /\ sState' = "evaluating"
    /\ UNCHANGED <<sUrl, sFast, sFallback, sPending, sOut, browsers, sLaunched, sRequests>>
    /\ UNCHANGED <<crawlVars, upsertVars, storeVars, retryVars, fnVars>>
    /\ UNCHANGED sessionVars

\* lines 43-86: an awaited call of the try block rejects (newContext, newPage,
\* route, goto and its navigation timeout, evaluate, content)
BrowserStepFails ==
    /\ sState \in {"navigating", "evaluating", "content"}
    /\ sPending' = Threw
    /\ sState' = AfterBrowserError
    /\ sOut' = IF AfterBrowserError = "thrown" THEN Threw ELSE sOut
    /\ UNCHANGED <<sUrl, sFast, sFallback, browsers, sLaunched, sRequests>>
    /\ UNCHANGED <<crawlVars, upsertVars, storeVars, retryVars, fnVars>>
    /\ UNCHANGED sessionVars

\* lines 76-84: page.evaluate resolves to the visible text
EvaluateReturns ==
    /\ sState = "evaluating"
    /\ \E visible \in VisibleTexts :
          IF VisibleEnough(visible)
          THEN sPending' = Got(CollapseWs(visible)) /\ sState' = "closing"
          ELSE sPending' = sPending /\ sState' = "content"
    /\ UNCHANGED <<sUrl, sFast, sFallback, sOut, browsers, sLaunched, sRequests>>
    /\ UNCHANGED <<crawlVars, upsertVars, storeVars, retryVars, fnVars>>
    /\ UNCHANGED sessionVars

\* lines 86-87: page.content resolves, cleanText(html) is the result
ContentReturns ==
    /\ sState = "content"
    /\ \E text \in ContentTexts : sPending' = Got(text)
    /\ sState' = "closing"
    /\ UNCHANGED <<sUrl, sFast, sFallback, sOut, browsers, sLaunched, sRequests>>
    /\ UNCHANGED <<crawlVars, upsertVars, storeVars, retryVars, fnVars>>
    /\ UNCHANGED sessionVars

\* lines 88-90: browser.close() resolves, then the held completion takes
\* effect and scrapeText passes it on (line 118)
BrowserClose ==
    /\ sState = "closing"
    /\ browsers' = browsers - 1
    /\ sOut' = sPending
    /\ sState' = IF sPending.threw THEN "thrown" ELSE "returned"
    /\ UNCHANGED <<sUrl, sFast, sFallback, sPending, sLaunched, sRequests>>
    /\ UNCHANGED <<crawlVars, upsertVars, storeVars, retryVars, fnVars>>
    /\ UNCHANGED sessionVars

\* scrape.js lines 35-60: scrapeText has settled, the route responds
ScrapeRespond ==
    /\ pc = "scrapeWait"
    /\ sState \in {"returned", "thrown"}
    /\ response' = RouteStatus(sOut)
    /\ pc' = "scrapeIdle"
    /\ sState' = "idle"
    /\ UNCHANGED <<sUrl, sFast, sFallback, sPending, sOut, browsers, sLaunched, sRequests>>
    /\ UNCHANGED <<pathPrefix, maxDepth, maxPages, delayMs, seen, q, crawled, upserted,
                   cur, chunks, fetchLog, sleptSinceFetch, namespace,
                   startUrl, now, built, enq, inFlight>>
    /\ UNCHANGED <<upsertVars, storeVars, retryVars, fnVars>>
    /\ UNCHANGED sessionVars




(***************************************************************************)
(* index.js: chunkText, on run-length encoded strings                      *)
(***************************************************************************)
\* a string is a sequence of runs: n copies of the character c; adjacent runs
\* have different characters and no run is empty
Run(c, n) == [c |-> c, n |-> n]

\* text.length
RECURSIVE StrLen(_)
StrLen(s) == IF s = <<>> THEN 0 ELSE Head(s).n + StrLen(Tail(s))

\* text.slice(from, to) for 0 <= from
RECURSIVE Slice(_, _, _)
Slice(s, from, to) ==
    IF s = <<>> \/ to <= 0 THEN <<>>
    ELSE LET r == Head(s)
             a == Max(from, 0)
             b == Min(to, r.n)
             rest == Slice(Tail(s), from - r.n, to - r.n)
         IN  IF a < b THEN <<Run(r.c, b - a)>> \o rest ELSE rest

\* String.prototype.trim
RECURSIVE TrimStart(_)
TrimStart(s) == IF s # <<>> /\ Head(s).c = " " THEN TrimStart(Tail(s)) ELSE s

RECURSIVE TrimEnd(_)
TrimEnd(s) ==
    IF s # <<>> /\ s[Len(s)].c = " " THEN TrimEnd(SubSeq(s, 1, Len(s) - 1)) ELSE s

Trim(s) == TrimEnd(TrimStart(s))

\* mutant of Step: the windows do not overlap
StepNoOverlap(maxChars, overlap) == maxChars

\* i += (maxChars - overlap)
Step(maxChars, overlap) == maxChars - overlap

\* the iterations of the loop of chunkText: the position i and text.slice(i, i + maxChars)
RECURSIVE Windows(_, _, _, _)
Windows(text, maxChars, overlap, i) ==
    IF i < StrLen(text)
    THEN <<[i |-> i, slice |-> Slice(text, i, i + maxChars)]>>
         \o Windows(text, maxChars, overlap, i + Step(maxChars, overlap))
    ELSE <<>>

\* mutant of Piece: the slice is not trimmed
PieceUntrimmed(slice) == slice

\* const piece = text.slice(i, i + maxChars).trim()
Piece(slice) == Trim(slice)

\* chunkText(text, maxChars, overlap): the non-empty pieces, in order
chunkText(text, maxChars, overlap) ==
    LET w == Windows(text, maxChars, overlap, 0)
        pieces == [k \in 1..Len(w) |-> Piece(w[k].slice)]
    IN  SelectSeq(pieces, LAMBDA piece : piece # <<>>)

(***************************************************************************)
(* crawl.js: POST /ingest-crawl                                            *)
(***************************************************************************)
\* lines 168-171: pathPrefix normalised to start with "/", "" becomes undefined
NormalizePrefix(p) ==
    IF p = <<"default">> THEN DefaultPathPrefix
    ELSE IF p = <<>> THEN <<>>
    ELSE IF StartsWith(p, <<"/">>) THEN p
    ELSE <<"/">> \o p

\* mutant of InvalidStartUrl: the typeof test is missing
InvalidStartUrlAnyType(val) == val.url = NoUrl \/ ~isHttpUrl(val.url)

\* line 162: !startUrl || typeof startUrl !== "string" || !isHttpUrl(startUrl)
InvalidStartUrl(val) ==
    val.url = NoUrl \/ val.type # "string" \/ ~isHttpUrl(val.url)

\* mutant of Settled: the call stays in flight
SettledNever(calls, call) == calls

\* a remote call is started / a started call returns or throws
Started(calls, call) == calls \cup {call}
Settled(calls, call) == calls \ {call}

\* namespace values of a crawl request: missing, "n1"
CrawlNamespaceIn == {Undefined, Str("n1")}

\* lines 147-181: destructuring, validation, clamping, crawl state
IngestCrawlOf(starts, prefixes, depths, pages, delays) ==
    /\ pc = "idle"
    /\ \E startUrlIn \in starts, prefixIn \in prefixes,
          depthIn \in depths, pagesIn \in pages, delayIn \in delays,
          namespaceIn \in CrawlNamespaceIn :
          /\ startUrl' = startUrlIn
          /\ IF InvalidStartUrl(startUrlIn)
             THEN /\ response' = "400"
                  /\ pc' = "done"
                  /\ UNCHANGED <<pathPrefix, maxDepth, maxPages, delayMs, q, namespace, enq>>
             ELSE /\ pathPrefix' = NormalizePrefix(prefixIn)
                  /\ namespace' = namespaceIn
                  /\ maxDepth' = CrawlConfig(depthIn, pagesIn, delayIn).maxDepth
                  /\ maxPages' = CrawlConfig(depthIn, pagesIn, delayIn).maxPages
                  /\ delayMs' = CrawlConfig(depthIn, pagesIn, delayIn).delayMs
                  /\ q' = <<[url |-> cleanUrl(startUrlIn.url), depth |-> 0]>>
                  /\ enq' = {[url |-> cleanUrl(startUrlIn.url), depth |-> 0]}
                  /\ pc' = "loop"
                  /\ UNCHANGED response
    /\ seen' = {}
    /\ crawled' = 0
    /\ upserted' = 0
    /\ UNCHANGED <<cur, chunks, fetchLog, sleptSinceFetch>>
    /\ UNCHANGED upsertVars
    /\ UNCHANGED storeVars
    /\ UNCHANGED retryVars
    /\ UNCHANGED scrapeVars
    /\ UNCHANGED fnVars
    /\ UNCHANGED <<now, built, inFlight>>
    /\ UNCHANGED sessionVars

\* a request with any body of the model
IngestCrawl == IngestCrawlOf(CrawlStartIn, PathPrefixIn, DepthIn, PagesIn, DelayIn)

\* mutant of LoopGuard: the cap is off by one, crawled <= maxPages
LoopGuardOffByOne == Len(q) > 0 /\ crawled <= maxPages

\* line 184: while (q.length && crawled < maxPages)
LoopGuard == Len(q) > 0 /\ crawled < maxPages

\* mutant of SkipTask: the depth test is missing
SkipTaskNoDepth(task) == task.url \in seen

\* mutant of SkipTask: the seen test is missing
SkipTaskNoSeen(task) == task.depth > maxDepth

\* line 186: if (seen.has(url) || depth > maxDepth) continue
SkipTask(task) == task.url \in seen \/ task.depth > maxDepth

\* mutant of CatchOf: scrapeText is awaited outside any per-page try block
CatchOfScrapeUncaught(step) ==
    CASE step = "fetchHtml" -> "continue"
      [] step = "discoverLinks" -> "next"
      [] step = "scrapeText" -> "abort"
      [] step = "ingest" -> "next"

\* which handler a failure of a per-page step reaches: "continue" (the catch
\* blocks of lines 193-196 and 227-230), "next" (those of 219-221 and 253-255,
\* which fall through) or "abort" (the handler's catch of line 274)
CatchOf(step) ==
    CASE step = "fetchHtml" -> "continue"
      [] step = "discoverLinks" -> "next"
      [] step = "scrapeText" -> "continue"
      [] step = "ingest" -> "next"

\* line 274-287: the handler's catch answers 500
Abort ==
    /\ response' = "500"
    /\ pc' = "done"

\* lines 257-258: crawled += 1; if (delayMs) await sleep(delayMs)
EndOfPage ==
    /\ crawled' = crawled + 1
    /\ pc' = IF delayMs # 0 THEN "sleep" ELSE "loop"

\* mutant of Shift: the head stays in the frontier
ShiftKeepsHead(queue) == queue

\* line 185: q.shift()
Shift(queue) == Tail(queue)

\* lines 184-187 and 273: a skipped task
LoopSkip ==
    /\ pc = "loop"
    /\ LoopGuard
    /\ SkipTask(Head(q))
    /\ q' = Shift(q)
    /\ UNCHANGED <<pc, response, pathPrefix, maxDepth, maxPages, delayMs, seen, crawled,
                   upserted, cur, chunks, fetchLog, sleptSinceFetch>>
    /\ UNCHANGED upsertVars
    /\ UNCHANGED namespace
    /\ UNCHANGED storeVars
    /\ UNCHANGED retryVars
    /\ UNCHANGED scrapeVars
    /\ UNCHANGED fnVars
    /\ UNCHANGED <<startUrl, now, built, enq, inFlight>>
    /\ UNCHANGED sessionVars

\* lines 184-192: a task that is processed: seen.add(url), fetchHtml(url) is called
LoopVisit ==
    /\ pc = "loop"
    /\ LoopGuard
    /\ ~SkipTask(Head(q))
    /\ q' = Shift(q)
    /\ cur' = Head(q)
    /\ seen' = seen \cup {Head(q).url}
    /\ fetchLog' = Append(fetchLog, [url |-> Head(q).url, depth |-> Head(q).depth,
                                     slept |-> sleptSinceFetch])
    /\ sleptSinceFetch' = FALSE
    /\ pc' = "fetchHtml"
    /\ UNCHANGED <<response, pathPrefix, maxDepth, maxPages, delayMs, crawled, upserted, chunks>>
    /\ UNCHANGED upsertVars
    /\ UNCHANGED namespace
    /\ UNCHANGED storeVars
    /\ UNCHANGED retryVars
    /\ UNCHANGED scrapeVars
    /\ UNCHANGED fnVars
    /\ inFlight' = Started(inFlight, "fetchHtml")
    /\ UNCHANGED <<startUrl, now, built, enq>>
    /\ UNCHANGED sessionVars

\* lines 262-273: the loop ends, the result is returned
Return ==
    /\ pc = "loop"
    /\ ~LoopGuard
    /\ response' = "ok"
    /\ pc' = "done"
    /\ UNCHANGED <<pathPrefix, maxDepth, maxPages, delayMs, seen, q, crawled, upserted,
                   cur, chunks, fetchLog, sleptSinceFetch>>
    /\ UNCHANGED upsertVars
    /\ UNCHANGED namespace
    /\ UNCHANGED storeVars
    /\ UNCHANGED retryVars
    /\ UNCHANGED scrapeVars
    /\ UNCHANGED fnVars
    /\ UNCHANGED <<startUrl, now, built, enq, inFlight>>
    /\ UNCHANGED sessionVars

\* lines 193-196: fetchHtml throws (timeout, HTTP status, not HTML)
FetchHtmlFails ==
    /\ pc = "fetchHtml"
    /\ IF CatchOf("fetchHtml") = "abort" THEN Abort
       ELSE pc' = "loop" /\ UNCHANGED response
    /\ UNCHANGED <<pathPrefix, maxDepth, maxPages, delayMs, seen, q, crawled, upserted,
                   cur, chunks, fetchLog, sleptSinceFetch>>
    /\ UNCHANGED upsertVars
    /\ UNCHANGED namespace
    /\ UNCHANGED storeVars
    /\ UNCHANGED retryVars
    /\ UNCHANGED scrapeVars
    /\ UNCHANGED fnVars
    /\ inFlight' = Settled(inFlight, "fetchHtml")
    /\ UNCHANGED <<startUrl, now, built, enq>>
    /\ UNCHANGED sessionVars

\* mutant of Enqueue: the links are put at the front of the frontier
EnqueueFront(links, depth) ==
    LET fresh == SelectSeq(links, LAMBDA l : l \notin seen)
    IN  [i \in 1..Len(fresh) |-> [url |-> fresh[i], depth |-> depth + 1]] \o q

\* mutant of Enqueue: every link is pushed, seen or not
EnqueueAll(links, depth) ==
    q \o [i \in 1..Len(links) |-> [url |-> links[i], depth |-> depth + 1]]

\* lines 216-218: for (const l of links) if (!seen.has(l)) q.push({ url: l, depth: depth + 1 })
Enqueue(links, depth) ==
    LET fresh == SelectSeq(links, LAMBDA l : l \notin seen)
    IN  q \o [i \in 1..Len(fresh) |-> [url |-> fresh[i], depth |-> depth + 1]]

\* lines 192-226: fetchHtml returns the page, links are queued, scrapeText(url) is called
FetchHtmlReturnsOf(pages) ==
    /\ pc = "fetchHtml"
    /\ \/ \E html \in pages : \E links \in {discoverLinks(html, cur.url, pathPrefix)} :
             /\ q' = Enqueue(links, cur.depth)
             /\ enq' = enq \cup {[url |-> links[i], depth |-> cur.depth + 1] :
                                     i \in {j \in 1..Len(links) : links[j] \notin seen}}
             /\ inFlight' = Started(Settled(inFlight, "fetchHtml"), "scrapeText")
             /\ pc' = "scrapeText"
             /\ UNCHANGED response
       \/ \* discoverLinks throws
          IF CatchOf("discoverLinks") = "abort"
          THEN Abort /\ inFlight' = Settled(inFlight, "fetchHtml") /\ UNCHANGED <<q, enq>>
          ELSE /\ pc' = "scrapeText"
               /\ inFlight' = Started(Settled(inFlight, "fetchHtml"), "scrapeText")
               /\ UNCHANGED <<q, enq, response>>
    /\ UNCHANGED <<pathPrefix, maxDepth, maxPages, delayMs, seen, crawled, upserted,
                   cur, chunks, fetchLog, sleptSinceFetch>>
    /\ UNCHANGED upsertVars
    /\ UNCHANGED namespace
    /\ UNCHANGED storeVars
    /\ UNCHANGED retryVars
    /\ UNCHANGED scrapeVars
    /\ UNCHANGED fnVars
    /\ UNCHANGED <<startUrl, now, built>>
    /\ UNCHANGED sessionVars

\* any page of the model
FetchHtmlReturns == FetchHtmlReturnsOf(Pages)

\* lines 227-230: scrapeText throws
ScrapeTextFails ==
    /\ pc = "scrapeText"
    /\ IF CatchOf("scrapeText") = "abort" THEN Abort
       ELSE pc' = "loop" /\ UNCHANGED response
    /\ UNCHANGED <<pathPrefix, maxDepth, maxPages, delayMs, seen, q, crawled, upserted,
                   cur, chunks, fetchLog, sleptSinceFetch>>
    /\ UNCHANGED upsertVars
    /\ UNCHANGED namespace
    /\ UNCHANGED storeVars
    /\ UNCHANGED retryVars
    /\ UNCHANGED scrapeVars
    /\ UNCHANGED fnVars
    /\ inFlight' = Settled(inFlight, "scrapeText")
    /\ UNCHANGED <<startUrl, now, built, enq>>
    /\ UNCHANGED sessionVars

\* the text scrapeText returns for a page: "" or, for n chunks, a word of
\* 1050 n - 100 characters
PageText(n) == IF n = 0 THEN <<>> ELSE <<Run("a", 1050 * n - 100)>>

\* lines 226-236 and 253-258: scrapeText returns text that chunkText splits into
\* n chunks, n from sizes; with no chunk (or chunkText throwing) the page ends,
\* else embedTexts is called
ScrapeTextReturnsOf(sizes) ==
    /\ pc = "scrapeText"
    /\ \E n \in sizes, chunkThrows \in BOOLEAN :
          IF chunkThrows
          THEN /\ IF CatchOf("ingest") = "abort"
                  THEN Abort /\ UNCHANGED <<crawled, chunks>>
                  ELSE EndOfPage /\ UNCHANGED <<response, chunks>>
               /\ inFlight' = Settled(inFlight, "scrapeText")
          ELSE /\ chunks' = chunkText(PageText(n), 1200, 150)
               /\ IF Len(chunks') = 0
                  THEN /\ EndOfPage
                       /\ inFlight' = Settled(inFlight, "scrapeText")
                       /\ UNCHANGED response
                  ELSE /\ pc' = "embedTexts"
                       /\ inFlight' = Started(Settled(inFlight, "scrapeText"), "embedTexts")
                       /\ UNCHANGED <<response, crawled>>
    /\ UNCHANGED <<pathPrefix, maxDepth, maxPages, delayMs, seen, q, upserted,
                   cur, fetchLog, sleptSinceFetch>>
    /\ UNCHANGED upsertVars
    /\ UNCHANGED namespace
    /\ UNCHANGED storeVars
    /\ UNCHANGED retryVars
    /\ UNCHANGED scrapeVars
    /\ UNCHANGED fnVars
    /\ UNCHANGED <<startUrl, now, built, enq>>
    /\ UNCHANGED sessionVars

\* the pages of the modelled web have no text or MaxChunks chunks of text
ScrapeTextReturns == ScrapeTextReturnsOf({0, MaxChunks})

\* a web of long pages: no text, or one chunk more than a batch of upsertVectors holds
ScrapeTextReturnsLong == ScrapeTextReturnsOf({0, BatchSize + 1})

\* lines 253-258: embedTexts throws
EmbedTextsFails ==
    /\ pc = "embedTexts"
    /\ IF CatchOf("ingest") = "abort"
       THEN Abort /\ UNCHANGED crawled
       ELSE EndOfPage /\ UNCHANGED response
    /\ UNCHANGED <<pathPrefix, maxDepth, maxPages, delayMs, seen, q, upserted,
                   cur, chunks, fetchLog, sleptSinceFetch>>
    /\ UNCHANGED upsertVars
    /\ UNCHANGED namespace
    /\ UNCHANGED storeVars
    /\ UNCHANGED retryVars
    /\ UNCHANGED scrapeVars
    /\ UNCHANGED fnVars
    /\ inFlight' = Settled(inFlight, "embedTexts")
    /\ UNCHANGED <<startUrl, now, built, enq>>
    /\ UNCHANGED sessionVars

\* the time between two readings of Date.now(), sleeps apart: less than a
\* millisecond, or one millisecond
Elapsed == {0, 1}

SnippetLen == 800    \* chunks[i].slice(0, 800)

\* mutant of BuildVectors: the id is `${now}-${i}`, as in /ingest-url-chunks
BuildVectorsNoCounter(url, chunkList, embeddings, t, nth) ==
    [i \in 1..Len(embeddings) |->
        [id |-> <<t, i - 1>>,
         values |-> embeddings[i],
         metadata |-> [url |-> url, chunk |-> i - 1,
                       text |-> Slice(chunkList[i], 0, SnippetLen)]]]

\* lines 239-248: one vector per embedding, id `${now}-${crawled}-${i}`, with
\* the page's address, the chunk index and the first 800 characters of the chunk
BuildVectors(url, chunkList, embeddings, t, nth) ==
    [i \in 1..Len(embeddings) |->
        [id |-> <<t, nth, i - 1>>,
         values |-> embeddings[i],
         metadata |-> [url |-> url, chunk |-> i - 1,
                       text |-> Slice(chunkList[i], 0, SnippetLen)]]]

\* the answers of the embedding provider for n texts: n embeddings, or n
\* embeddings of which the first is empty
EmbeddingsFor(n) ==
    {[i \in 1..n |-> <<i>>], [i \in 1..n |-> IF i = 1 THEN <<>> ELSE <<i>>]}

\* mutant of UpsertNamespace: the namespace is derived per page
UpsertNamespacePerPage == IF crawled = 0 THEN namespace ELSE Str("page")

\* line 250: upsertVectors(vectors, { namespace })
UpsertNamespace == namespace

\* lines 236-250: embedTexts returns, the vectors are built, upsertVectors is called
EmbedTextsReturns ==
    /\ pc = "embedTexts"
    /\ \E embeddings \in EmbeddingsFor(Len(chunks)), ms \in Elapsed :
          LET vectors == BuildVectors(cur.url, chunks, embeddings, now + ms, crawled)
          IN  /\ now' = now + ms
              /\ built' = built \o [i \in 1..Len(vectors) |-> vectors[i].id]
              /\ UpsertEnter(vectors, UpsertNamespace)
    /\ inFlight' = Started(Settled(inFlight, "embedTexts"), "upsertVectors")
    /\ pc' = "upsertVectors"
    /\ UNCHANGED <<response, pathPrefix, maxDepth, maxPages, delayMs, seen, q, crawled,
                   upserted, cur, chunks, fetchLog, sleptSinceFetch>>
    /\ UNCHANGED namespace
    /\ UNCHANGED storeVars
    /\ UNCHANGED retryVars
    /\ UNCHANGED scrapeVars
    /\ UNCHANGED fnVars
    /\ UNCHANGED <<startUrl, enq>>
    /\ UNCHANGED sessionVars

\* lines 250-258: upsertVectors returns (upserted += upsertedCount) or throws
UpsertVectorsDone ==
    /\ pc = "upsertVectors"
    /\ uState \in {"returned", "thrown"}
    /\ IF uState = "returned"
       THEN upserted' = upserted + uTotal /\ EndOfPage /\ UNCHANGED response
       ELSE IF CatchOf("ingest") = "abort"
            THEN Abort /\ UNCHANGED <<crawled, upserted>>
            ELSE EndOfPage /\ UNCHANGED <<response, upserted>>
    /\ UpsertIdle
    /\ UNCHANGED <<pathPrefix, maxDepth, maxPages, delayMs, seen, q,
                   cur, chunks, fetchLog, sleptSinceFetch>>
    /\ UNCHANGED namespace
    /\ UNCHANGED storeVars
    /\ UNCHANGED retryVars
    /\ UNCHANGED scrapeVars
    /\ UNCHANGED fnVars
    /\ inFlight' = Settled(inFlight, "upsertVectors")
    /\ UNCHANGED <<startUrl, now, built, enq>>
    /\ UNCHANGED sessionVars

\* line 258: sleep(delayMs) ends
SleepDone ==
    /\ pc = "sleep"
    /\ pc' = "loop"
    /\ sleptSinceFetch' = TRUE
    /\ now' = now + delayMs   \* the clock reads at least delayMs more
    /\ UNCHANGED <<response, pathPrefix, maxDepth, maxPages, delayMs, seen, q, crawled,
                   upserted, cur, chunks, fetchLog>>
    /\ UNCHANGED upsertVars
    /\ UNCHANGED namespace
    /\ UNCHANGED storeVars
    /\ UNCHANGED retryVars
    /\ UNCHANGED scrapeVars
    /\ UNCHANGED fnVars
    /\ UNCHANGED <<startUrl, built, enq, inFlight>>
    /\ UNCHANGED sessionVars

(***************************************************************************)
(* utilities.js: cleanUrl called on its own, on its own result too         *)
(***************************************************************************)
\* the parameters of a query: tracking names, another name, a tracking name
\* in capitals, each with one of two values
ParamsIn == {Param(k, v) : k \in {"utm_source", "gclid", "q", "UTM_SOURCE"}, v \in {"1", "2"}}

PathsIn == {<<"/">>, <<"/", "d">>, <<"/", "d", "/">>, <<"/", "d", "/", "/">>, <<"/", "/">>}

StripParamsIn == {DEFAULT_STRIP_PARAMS, {}, {"q"}, {"q", "gclid"}}

CleanUrlArgs ==
    {[u |-> Url("https:", "a", path, query, hash), stripParams |-> stripParams] :
        path \in PathsIn, query \in SeqsUpTo(ParamsIn, MaxParams), hash \in BOOLEAN,
        stripParams \in StripParamsIn}

\* cleanUrl(u, { stripParams })
CallCleanUrl ==
    /\ pc = "cleanUrl"
    /\ fnResult' = <<cleanUrlOpt(fnArgs.u, fnArgs.stripParams)>>
    /\ pc' = "cleanUrlAgain"
    /\ UNCHANGED <<response, pathPrefix, maxDepth, maxPages, delayMs, seen, q, crawled,
                   upserted, cur, chunks, fetchLog, sleptSinceFetch, namespace,
                   startUrl, now, built, enq, inFlight>>
    /\ UNCHANGED <<fnArgs, upsertVars, storeVars, retryVars, scrapeVars>>
    /\ UNCHANGED sessionVars

\* cleanUrl(cleanUrl(u, { stripParams }), { stripParams })
CallCleanUrlAgain ==
    /\ pc = "cleanUrlAgain"
    /\ fnResult' = Append(fnResult, cleanUrlOpt(fnResult[1], fnArgs.stripParams))
    /\ pc' = "done"
    /\ UNCHANGED <<response, pathPrefix, maxDepth, maxPages, delayMs, seen, q, crawled,
                   upserted, cur, chunks, fetchLog, sleptSinceFetch, namespace,
                   startUrl, now, built, enq, inFlight>>
    /\ UNCHANGED <<fnArgs, upsertVars, storeVars, retryVars, scrapeVars>>
    /\ UNCHANGED sessionVars

(***************************************************************************)
(* crawl.js: the configuration of a request, computed on its own           *)
(***************************************************************************)
\* values of maxDepth, maxPages and delayMs in a request body: missing, null,
\* 1e999, "abc", true, and the numbers -1, 0, 0.5, 2.7, 6, 7, 1000, 1000.9,
\* 1001, 5000, 5001 as numbers, two of them also as strings
RawIn ==
    {Missing, Null, Infinite, NonNumeric, Bool(TRUE), NumStr(27), NumStr(-5)}
    \cup {Value("number", n10) : n10 \in {-10, 0, 5, 27, 60, 70, 10000, 10009, 10010,
                                          50000, 50010}}

ConfigArgs == [maxDepth : RawIn, maxPages : RawIn, delayMs : RawIn]

\* scrape.js lines 151-175 for the three numeric fields
ApplyCrawlConfig ==
    /\ pc = "config"
    /\ fnResult' = <<CrawlConfig(fnArgs.maxDepth, fnArgs.maxPages, fnArgs.delayMs)>>
    /\ pc' = "done"
    /\ UNCHANGED <<response, pathPrefix, maxDepth, maxPages, delayMs, seen, q, crawled,
                   upserted, cur, chunks, fetchLog, sleptSinceFetch, namespace,
                   startUrl, now, built, enq, inFlight>>
    /\ UNCHANGED <<fnArgs, upsertVars, storeVars, retryVars, scrapeVars>>
    /\ UNCHANGED sessionVars

(***************************************************************************)
(* index.js: chunkText called on its own, then the vectors of a page       *)
(***************************************************************************)
\* the string whose runs have the lengths lens, starting with character c
AltRuns(c, lens) ==
    [k \in 1..Len(lens) |->
        Run(IF k % 2 = 1 THEN c ELSE IF c = " " THEN "a" ELSE " ", lens[k])]

\* the strings of at most n runs of "a" and " " with lengths from lens
Texts(lens, n) == {AltRuns(c, ls) : c \in {"a", " "}, ls \in SeqsUpTo(lens, n)}

\* chunkText(text, maxChars, overlap) on short texts with every small maxChars
\* and 0 <= overlap < maxChars, and chunkText(text, 1200, 150) on long texts
ChunkCall(text, maxChars, overlap) ==
    [text |-> text, maxChars |-> maxChars, overlap |-> overlap]

ChunkArgsIn ==
    {a \in {ChunkCall(text, maxChars, overlap) :
                text \in Texts({1, 2}, MaxRuns),
                maxChars \in 1..MaxWindow, overlap \in 0..(MaxWindow - 1)} :
        a.overlap < a.maxChars}
    \cup {ChunkCall(text, 1200, 150) : text \in Texts({100, 1050, 1200}, MaxRuns)}

\* chunkText(text, maxChars, overlap) returns; the crawl goes on to embed the chunks
CallChunkText ==
    /\ pc = "chunkText"
    /\ fnResult' = <<[windows |-> Windows(fnArgs.text, fnArgs.maxChars, fnArgs.overlap, 0),
                      chunks |-> chunkText(fnArgs.text, fnArgs.maxChars, fnArgs.overlap)]>>
    /\ pc' = IF fnArgs.maxChars = 1200 /\ Len(fnResult'[1].chunks) > 0
             THEN "buildVectors" ELSE "done"
    /\ UNCHANGED <<response, pathPrefix, maxDepth, maxPages, delayMs, seen, q, crawled,
                   upserted, cur, chunks, fetchLog, sleptSinceFetch, namespace,
                   startUrl, now, built, enq, inFlight>>
    /\ UNCHANGED <<fnArgs, upsertVars, storeVars, retryVars, scrapeVars>>
    /\ UNCHANGED sessionVars

\* scrape.js lines 236-248: embedTexts(chunks) returns and the vectors are built
CallBuildVectors ==
    /\ pc = "buildVectors"
    /\ \E embeddings \in EmbeddingsFor(Len(fnResult[1].chunks)) :
          fnResult' = Append(fnResult,
                             [embeddings |-> embeddings,
                              vectors |-> BuildVectors(cleanUrl(SeedIn), fnResult[1].chunks,
                                                       embeddings, now, crawled)])
    /\ pc' = "done"
    /\ UNCHANGED <<response, pathPrefix, maxDepth, maxPages, delayMs, seen, q, crawled,
                   upserted, cur, chunks, fetchLog, sleptSinceFetch, namespace,
                   startUrl, now, built, enq, inFlight>>
    /\ UNCHANGED <<fnArgs, upsertVars, storeVars, retryVars, scrapeVars>>
    /\ UNCHANGED sessionVars

(***************************************************************************)
(* index.js: the loop of chunkText, one iteration per step                 *)
(***************************************************************************)
\* text.slice(from, to): a negative index counts from the end of the text
SliceJs(s, from, to) ==
    LET L == StrLen(s)
        f == IF from < 0 THEN Max(L + from, 0) ELSE from
        t == IF to < 0 THEN Max(L + to, 0) ELSE to
    IN  Slice(s, f, t)

\* chunkText(text, maxChars, overlap) on short texts with every small maxChars
\* and every small overlap, below maxChars or not
ChunkLoopArgsIn ==
    {ChunkCall(text, maxChars, overlap) :
        text \in Texts({1, 2}, MaxRuns),
        maxChars \in 1..MaxWindow, overlap \in 0..(MaxWindow + 1)}

\* lines 31-33: one iteration: the piece is pushed when not empty, i += (maxChars - overlap)
ChunkLoopStep ==
    /\ pc = "chunkLoop"
    /\ fnResult[1].i < StrLen(fnArgs.text)
    /\ fnResult[1].iter < MaxIter
    /\ LET i == fnResult[1].i
           piece == Piece(SliceJs(fnArgs.text, i, i + fnArgs.maxChars))
       IN  fnResult' = <<[i |-> i + Step(fnArgs.maxChars, fnArgs.overlap),
                          iter |-> fnResult[1].iter + 1,
                          chunks |-> IF piece # <<>>
                                     THEN Append(fnResult[1].chunks, piece)
                                     ELSE fnResult[1].chunks]>>
    /\ UNCHANGED <<pc, response, pathPrefix, maxDepth, maxPages, delayMs, seen, q, crawled,
                   upserted, cur, chunks, fetchLog, sleptSinceFetch, namespace,
                   startUrl, now, built, enq, inFlight>>
    /\ UNCHANGED <<fnArgs, upsertVars, storeVars, retryVars, scrapeVars>>
    /\ UNCHANGED sessionVars

\* lines 31 and 35: i < text.length is false, return chunks
ChunkLoopReturn ==
    /\ pc = "chunkLoop"
    /\ ~(fnResult[1].i < StrLen(fnArgs.text))
    /\ pc' = "done"
    /\ UNCHANGED <<response, pathPrefix, maxDepth, maxPages, delayMs, seen, q, crawled,
                   upserted, cur, chunks, fetchLog, sleptSinceFetch, namespace,
                   startUrl, now, built, enq, inFlight>>
    /\ UNCHANGED <<fnVars, upsertVars, storeVars, retryVars, scrapeVars>>
    /\ UNCHANGED sessionVars

(***************************************************************************)
(* crawl.js: two /ingest-crawl requests served by one event loop           *)
(***************************************************************************)
\* the locals of the running handler and of the upsertVectors call it awaits
Frame ==
    [pc |-> pc, response |-> response, startUrl |-> startUrl, namespace |-> namespace,
     pathPrefix |-> pathPrefix, maxDepth |-> maxDepth, maxPages |-> maxPages,
     delayMs |-> delayMs, seen |-> seen, q |-> q, crawled |-> crawled,
     upserted |-> upserted, cur |-> cur, chunks |-> chunks,
     fetchLog |-> fetchLog, sleptSinceFetch |-> sleptSinceFetch, built |-> built,
     enq |-> enq, inFlight |-> inFlight,
     uState |-> uState, uVectors |-> uVectors, uIdx |-> uIdx, uAttempt |-> uAttempt,
     uTotal |-> uTotal, uIndex |-> uIndex]

\* the locals of a handler whose request has not arrived
IdleFrame ==
    [pc |-> "idle", response |-> "none", startUrl |-> NoStartUrl, namespace |-> Undefined,
     pathPrefix |-> <<>>, maxDepth |-> 0, maxPages |-> 0,
     delayMs |-> 0, seen |-> {}, q |-> <<>>, crawled |-> 0,
     upserted |-> 0, cur |-> NoTask, chunks |-> <<>>,
     fetchLog |-> <<>>, sleptSinceFetch |-> FALSE, built |-> <<>>,
     enq |-> {}, inFlight |-> {},
     uState |-> "idle", uVectors |-> <<>>, uIdx |-> 1, uAttempt |-> 1,
     uTotal |-> 0, uIndex |-> ""]

\* the positions at which the handler waits on an await
AwaitPoints == {"fetchHtml", "scrapeText", "embedTexts", "upsertVectors", "sleep"}

\* mutant of CrawlState: the crawl state is declared once for the router
CrawlStateOfRouter(own, running) == running

\* lines 177-181: seen, q, crawled and upserted are declared inside the
\* handler, so a resumed handler finds its own
CrawlState(own, running) == own

\* the running handler waits on an await (or has answered) and the event
\* loop runs the other one: its request arrives, or the call it awaits settles
SwitchSession ==
    /\ pc \in AwaitPoints \cup {"done"}
    /\ parked.pc # "done"
    /\ parked' = Frame
    /\ active' = 3 - active
    /\ pc' = parked.pc
    /\ response' = parked.response
    /\ startUrl' = parked.startUrl
    /\ namespace' = parked.namespace
    /\ pathPrefix' = parked.pathPrefix
    /\ maxDepth' = parked.maxDepth
    /\ maxPages' = parked.maxPages
    /\ delayMs' = parked.delayMs
    /\ seen' = CrawlState(parked.seen, seen)
    /\ q' = CrawlState(parked.q, q)
    /\ crawled' = CrawlState(parked.crawled, crawled)
    /\ upserted' = CrawlState(parked.upserted, upserted)
    /\ cur' = parked.cur
    /\ chunks' = parked.chunks
    /\ fetchLog' = parked.fetchLog
    /\ sleptSinceFetch' = parked.sleptSinceFetch
    /\ built' = parked.built
    /\ enq' = parked.enq
    /\ inFlight' = parked.inFlight
    /\ uState' = parked.uState
    /\ uVectors' = parked.uVectors
    /\ uIdx' = parked.uIdx
    /\ uAttempt' = parked.uAttempt
    /\ uTotal' = parked.uTotal
    /\ uIndex' = parked.uIndex
    /\ UNCHANGED <<now, uCalls>>
    /\ UNCHANGED <<storeVars, retryVars, scrapeVars, fnVars>>

(***************************************************************************)
(* Specifications                                                          *)
(***************************************************************************)
InitState ==
    /\ response = "none"
    /\ pathPrefix = <<>>
    /\ maxDepth = 0
    /\ maxPages = 0
    /\ delayMs = 0
    /\ seen = {}
    /\ q = <<>>
    /\ crawled = 0
    /\ upserted = 0
    /\ cur = NoTask
    /\ chunks = <<>>
    /\ fetchLog = <<>>
    /\ sleptSinceFetch = FALSE
    /\ startUrl = NoStartUrl
    /\ now = 0
    /\ built = <<>>
    /\ enq = {}
    /\ inFlight = {}
    /\ uState = "idle"
    /\ uVectors = <<>>
    /\ uIdx = 1
    /\ uAttempt = 1
    /\ uTotal = 0
    /\ uCalls = <<>>
    /\ uIndex = ""
    /\ namespace = Undefined
    /\ store = {}
    /\ nsUsed = {}
    /\ rState = "idle"
    /\ rTries = 0
    /\ rBaseDelayMs = 0
    /\ rJitter = FALSE
    /\ rOnRetry = FALSE
    /\ rAttempt = 1
    /\ rLastErr = 0
    /\ rOut = 0
    /\ rCalls = <<>>
    /\ rSleeps = <<>>
    /\ rNotified = <<>>
    /\ sState = "idle"
    /\ sUrl = NoUrl
    /\ active = 1
    /\ parked = IdleFrame
    /\ sFast = NoOutcome
    /\ sFallback = FALSE
    /\ sPending = NoOutcome
    /\ sOut = NoOutcome
    /\ browsers = 0
    /\ sLaunched = 0
    /\ sRequests = 0

\* no utility function is called on its own
InitCommon == InitState /\ fnArgs = <<>> /\ fnResult = <<>>

\* the server waits for a POST /ingest-crawl request
Init == pc = "idle" /\ InitCommon

Next ==
    \/ IngestCrawl
    \/ LoopSkip
    \/ LoopVisit
    \/ Return
    \/ FetchHtmlFails
    \/ FetchHtmlReturns
    \/ ScrapeTextFails
    \/ ScrapeTextReturns
    \/ EmbedTextsFails
    \/ EmbedTextsReturns
    \/ UpsertCallOk
    \/ UpsertCallFails
    \/ UpsertBackoffDone
    \/ UpsertVectorsDone
    \/ SleepDone

Spec == Init /\ [][Next]_vars

\* the crawl with every awaited call eventually settling and the event loop
\* resuming the handler
SpecLive == Init /\ [][Next]_vars /\ WF_vars(Next)

\* the crawl of a web of long pages
NextLong ==
    \/ IngestCrawl
    \/ LoopSkip
    \/ LoopVisit
    \/ Return
    \/ FetchHtmlFails
    \/ FetchHtmlReturns
    \/ ScrapeTextFails
    \/ ScrapeTextReturnsLong
    \/ EmbedTextsFails
    \/ EmbedTextsReturns
    \/ UpsertCallOk
    \/ UpsertCallFails
    \/ UpsertBackoffDone
    \/ UpsertVectorsDone
    \/ SleepDone

SpecLong == Init /\ [][NextLong]_vars

\* two requests for the same site, with different page caps
TwoPages == {<<>>, <<Url("https:", "a", <<"/", "d", "/", "x">>, <<>>, FALSE)>>}

IngestCrawlTwo ==
    IngestCrawlOf({StartUrl("string", SeedIn)}, {<<"default">>}, {Num(0), Num(1)},
                  {Num(1), Num(2)}, {Num(0)})

NextTwo ==
    \/ IngestCrawlTwo
    \/ LoopSkip
    \/ LoopVisit
    \/ Return
    \/ FetchHtmlFails
    \/ FetchHtmlReturnsOf(TwoPages)
    \/ ScrapeTextFails
    \/ ScrapeTextReturnsOf({1})
    \/ EmbedTextsFails
    \/ EmbedTextsReturns
    \/ UpsertCallOk
    \/ UpsertVectorsDone
    \/ SwitchSession

SpecTwo == Init /\ [][NextTwo]_vars

\* upsertVectors called on its own
InitUpsert == pc = "caller" /\ InitCommon

NextUpsert ==
    \/ CallUpsertVectors
    \/ UpsertCallOk
    \/ UpsertCallFails
    \/ UpsertBackoffDone

SpecUpsert == InitUpsert /\ [][NextUpsert]_vars

\* withRetry called on its own
InitRetry == pc = "retry" /\ InitCommon

NextRetry ==
    \/ CallWithRetry
    \/ RetryCallOk
    \/ RetryCallFails
    \/ RetrySleepDone

SpecRetry == InitRetry /\ [][NextRetry]_vars

\* the server waits for /scrape requests
InitScrape == pc = "scrapeIdle" /\ InitCommon

NextScrape ==
    \/ ScrapeRequest
    \/ FastPathReturns
    \/ FastPathThrows
    \/ LaunchFails
    \/ LaunchOk
    \/ NavigateOk
    \/ BrowserStepFails
    \/ EvaluateReturns
    \/ ContentReturns
    \/ BrowserClose
    \/ ScrapeRespond

SpecScrape == InitScrape /\ [][NextScrape]_vars

\* cleanUrl called on its own
InitCleanUrl == pc = "cleanUrl" /\ InitState /\ fnArgs \in CleanUrlArgs /\ fnResult = <<>>

NextCleanUrl ==
    \/ CallCleanUrl
    \/ CallCleanUrlAgain

SpecCleanUrl == InitCleanUrl /\ [][NextCleanUrl]_vars

\* the configuration of a crawl request computed on its own
InitConfig == pc = "config" /\ InitState /\ fnArgs \in ConfigArgs /\ fnResult = <<>>

NextConfig == ApplyCrawlConfig

SpecConfig == InitConfig /\ [][NextConfig]_vars

\* chunkText called on its own
InitChunk == pc = "chunkText" /\ InitState /\ fnArgs \in ChunkArgsIn /\ fnResult = <<>>

NextChunk == CallChunkText \/ CallBuildVectors

SpecChunk == InitChunk /\ [][NextChunk]_vars

\* the loop of chunkText: const chunks = []; let i = 0
InitChunkLoop ==
    /\ pc = "chunkLoop"
    /\ InitState
    /\ fnArgs \in ChunkLoopArgsIn
    /\ fnResult = <<[i |-> 0, iter |-> 0, chunks |-> <<>>]>>

NextChunkLoop == ChunkLoopStep \/ ChunkLoopReturn

SpecChunkLoop == InitChunkLoop /\ [][NextChunkLoop]_vars


(***************************************************************************)
(* Properties of the crawl session                                         *)
(***************************************************************************)
Visited == {fetchLog[i].url : i \in 1..Len(fetchLog)}

\* the tasks appended by link expansion that are in the frontier or were processed
Expanded ==
    {q[i] : i \in {j \in 1..Len(q) : q[j].depth > 0}}
    \cup {[url |-> fetchLog[i].url, depth |-> fetchLog[i].depth] :
             i \in {j \in 1..Len(fetchLog) : fetchLog[j].depth > 0}}

\* C1: every address handed to fetchHtml was dequeued with depth <= maxDepth;
\* a task with a larger depth is never fetched.
C1_DepthBound == \A i \in 1..Len(fetchLog) : fetchLog[i].depth <= maxDepth

\* C1 witness: after the seed was fetched, an unseen task deeper than maxDepth
\* is at the head of the frontier, about to be discarded.
C1_Witness ==
    /\ pc = "loop"
    /\ Len(fetchLog) >= 1
    /\ LoopGuard
    /\ Head(q).depth > maxDepth
    /\ Head(q).url \notin seen

\* C2: no address is handed to fetchHtml twice in one session.
C2_NoRefetch ==
    \A i, j \in 1..Len(fetchLog) : fetchLog[i].url = fetchLog[j].url => i = j

\* C2 witness: an address whose fetch already happened is at the head of the
\* frontier again (it was enqueued by two pages), with page budget left.
C2_Witness ==
    /\ pc = "loop"
    /\ LoopGuard
    /\ Head(q).url \in Visited
    /\ Head(q).depth <= maxDepth

\* C3: crawled <= maxPages in every state, and in the returned result.
C3_PageCap == crawled <= maxPages

\* C3 witness: the session returned because the cap was reached, with tasks left.
C3_Witness == response = "ok" /\ crawled = maxPages /\ Len(q) > 0

\* C4: the number of addresses marked seen and fetched never exceeds maxPages,
\* also when fetches or scrapes fail.
C4_VisitsWithinCap == pc # "idle" => Cardinality(seen) <= maxPages

\* C5: at termination crawled equals the number of addresses in the seen-set,
\* whatever failed on the way.
C5_CrawledCountsSeen == response = "ok" => crawled = Cardinality(seen)

\* C6: no failure of a per-page step reaches the handler's catch: the session
\* never answers 500, and a session that was started ends with the result.
C6_FailureIsolation ==
    /\ response # "500"
    /\ (pc = "done" /\ Len(fetchLog) > 0 => response = "ok")

\* C6 witness: a session in which two pages were visited and none completed
\* (each failed in fetchHtml or scrapeText) returned the result.
C6_Witness == response = "ok" /\ Len(fetchLog) >= 2 /\ crawled = 0

SeedOrigin == Origin(cleanUrl(SeedIn))

\* C7 as claimed: every task appended by link expansion has the seed's origin
\* and, when a prefix is configured, a path that starts with the prefix.
C7_Original ==
    \A t \in Expanded :
        /\ Origin(t.url) = SeedOrigin
        /\ (pathPrefix # <<>> => StartsWith(t.url.path, pathPrefix))

EndsWithTwoSlashes(p) == Len(p) >= 2 /\ p[Len(p)] = "/" /\ p[Len(p) - 1] = "/"

\* C7 amended: every task appended by link expansion has the seed's origin and
\* is the normalised form of a link whose path starts with the prefix; its own
\* path starts with the prefix unless the prefix ends in "//".
C7_ScopeOfLinks ==
    \A t \in Expanded :
        /\ Origin(t.url) = SeedOrigin
        /\ (pathPrefix # <<>> =>
              /\ \E h \in Hrefs : cleanUrl(h) = t.url /\ StartsWith(h.path, pathPrefix)
              /\ (~EndsWithTwoSlashes(pathPrefix) => StartsWith(t.url.path, pathPrefix)))

\* C7 witness: under a prefix, an address found by link expansion was processed
\* and another one is waiting in the frontier.
C7_Witness ==
    /\ pathPrefix # <<>>
    /\ \E i \in 1..Len(fetchLog) : fetchLog[i].depth > 0
    /\ \E i \in 1..Len(q) : q[i].depth > 0

\* C8 as claimed: an address appended to the frontier is in the seen-set, and
\* the frontier never holds two tasks with the same address.
C8_Original ==
    /\ \A i \in 1..Len(q) : q[i].depth > 0 => q[i].url \in seen
    /\ \A i, j \in 1..Len(q) : q[i].url = q[j].url => i = j

\* C8 amended: the seen-set holds exactly the addresses handed to fetchHtml; a
\* step that appends tasks to the frontier appends only addresses that are not
\* in the seen-set and adds none of them to it.
C8_SeenIsVisited ==
    /\ [](seen = Visited)
    /\ [][Len(q') > Len(q) =>
            /\ SubSeq(q', 1, Len(q)) = q
            /\ \A i \in (Len(q) + 1)..Len(q') : q'[i].url \notin seen /\ q'[i].url \notin seen']_vars

\* C8 witness: the frontier holds two tasks with the same address.
C8_Witness == \E i, j \in 1..Len(q) : i # j /\ q[i].url = q[j].url

\* C9: with delayMs > 0 a politeness sleep lies between any two successive
\* fetchHtml calls of a session; with delayMs = 0 the loop never sleeps.
C9_SleepBetweenFetches ==
    /\ (delayMs > 0 => \A i \in 2..Len(fetchLog) : fetchLog[i].slept)
    /\ (delayMs = 0 => pc # "sleep")

(***************************************************************************)
(* Properties of upsertVectors                                             *)
(***************************************************************************)
\* the k-th run of 100 consecutive vectors of the input
Hundred(k) == SubSeq(uVectors, (k - 1) * 100 + 1, Min(k * 100, Len(uVectors)))

OkBefore(i) == Cardinality({j \in 1..(i - 1) : uCalls[j].ok})

\* C10: a call that returns sent the consecutive runs of 100 vectors (the last
\* one the remainder), in input order, each remote call carrying the first run
\* not yet accepted; it made one accepted call per run, no other call when
\* none failed, and returns the number of vectors; for no vector it makes no call.
C10_Batches ==
    uState = "returned" =>
        LET n == Len(uVectors)
            runs == (n + 99) \div 100
        IN  /\ uTotal = n
            /\ Cardinality({i \in 1..Len(uCalls) : uCalls[i].ok}) = runs
            /\ \A i \in 1..Len(uCalls) : uCalls[i].batch = Hundred(OkBefore(i) + 1)
            /\ ((\A i \in 1..Len(uCalls) : uCalls[i].ok) => Len(uCalls) = runs)
            /\ (n = 0 => uCalls = <<>>)

\* C10 witness: 250 vectors went out as 100/100/50 in three calls, 250 returned.
C10_Witness ==
    /\ uState = "returned"
    /\ Len(uVectors) = 250
    /\ uTotal = 250
    /\ Len(uCalls) = 3
    /\ Len(uCalls[1].batch) = 100 /\ Len(uCalls[2].batch) = 100 /\ Len(uCalls[3].batch) = 50

\* the last remote call of upsertVectors was the final attempt of a batch, rejected
RetriesExhausted ==
    /\ uCalls # <<>>
    /\ ~uCalls[Len(uCalls)].ok
    /\ uCalls[Len(uCalls)].attempt = RetryTries

\* the batches accepted so far in this call of upsertVectors
Accepted == OkBefore(Len(uCalls) + 1)

\* upsertVectors returns { upsertedCount: n }
Reports(n) == uState = "returned" /\ uTotal = n

\* C11: when a batch after the first exhausts its retries, upsertVectors
\* reports the number of vectors of the batches accepted before it.
C11_PartialCountReported ==
    (RetriesExhausted /\ Accepted >= 1) => Reports(Cardinality(store))

\* the (namespace, id) pairs of the first k batches of this call
StoredBy(k) ==
    {[ns |-> uIndex, id |-> uVectors[i].id] : i \in 1..Min(k * 100, Len(uVectors))}

\* C12: the batches go out in input order, batch k+1 only after batch k was
\* accepted, each at most three times; the store always holds exactly the
\* batches accepted so far, and when a batch is rejected three times the call
\* throws with the earlier batches still in the store and no later batch sent.
C12_NoRollback ==
    uState # "idle" =>
        /\ \A i \in 1..Len(uCalls) :
              /\ uCalls[i].batch = Hundred(OkBefore(i) + 1)
              /\ uCalls[i].attempt \in 1..RetryTries
              /\ (i > 1 /\ ~uCalls[i - 1].ok => uCalls[i].attempt = uCalls[i - 1].attempt + 1)
        /\ store = StoredBy(Accepted)
        /\ (RetriesExhausted <=> (uState = "thrown" /\ uCalls # <<>>))
        /\ (RetriesExhausted =>
              \A i \in 1..Len(uCalls) : \A j \in 1..Len(uCalls[i].batch) :
                  uCalls[i].batch[j].id[1] <= (Accepted + 1) * 100)

\* C12 witness: of 250 vectors the third batch was rejected three times; the
\* 200 vectors of the first two batches are in the store.
C12_Witness ==
    /\ RetriesExhausted
    /\ uState = "thrown"
    /\ Len(uVectors) = 250
    /\ Accepted = 2
    /\ Cardinality(store) = 200

\* C13: a malformed vector at any position makes upsertVectors throw before
\* any remote call: nothing is sent, nothing is stored, nothing is retried.
C13_FailFast ==
    (uState # "idle" /\ \E i \in 1..Len(uVectors) : InvalidVector(uVectors[i])) =>
        /\ uState = "thrown"
        /\ uCalls = <<>>
        /\ store = {}
        /\ uAttempt = 1

\* C13 witness: 250 vectors whose 101st, in the second batch, has no id:
\* the call has thrown without a remote call.
C13_Witness ==
    /\ uState = "thrown"
    /\ Len(uVectors) = 250
    /\ uVectors[101].id = <<>>
    /\ ~InvalidVector(uVectors[1])
    /\ uCalls = <<>>

\* C20: every remote upsert of a crawl session goes to one namespace, the one
\* the request's namespace field resolves to, and so does every stored vector.
C20_OneNamespace ==
    /\ nsUsed \subseteq {getIndexForNamespace(namespace)}
    /\ \A e \in store : e.ns \in nsUsed

\* C20 witness: two pages of one session were stored, both in namespace "n1".
C20_Witness ==
    /\ Cardinality(store) >= 2
    /\ nsUsed = {"n1"}
    /\ \E e1 \in store, e2 \in store : e1.id[1] # e2.id[1]

\* every invocation of fn so far was rejected
AllFailed == \A i \in 1..Len(rCalls) : ~rCalls[i].ok

\* C14: withRetry with tries = n >= 1 on an operation that keeps failing
\* invokes it at most n times, throws exactly when the n-th invocation has
\* failed, and throws the error of that n-th invocation.
C14_AlwaysFailing ==
    (rState # "idle" /\ rTries >= 1 /\ AllFailed) =>
        /\ Len(rCalls) <= rTries
        /\ rState # "returned"
        /\ (rState = "thrown" <=> Len(rCalls) = rTries)
        /\ (rState = "thrown" => rOut = rCalls[rTries].val /\ rCalls[rTries].attempt = rTries)

\* C14 witness: tries = 3, three invocations failed, the third error is thrown.
C14_Witness ==
    /\ rState = "thrown"
    /\ rTries = 3
    /\ Len(rCalls) = 3
    /\ AllFailed
    /\ rOut = 3

\* C15: once an invocation succeeds it is the last one: the earlier ones all
\* failed, there are at most tries of them, and withRetry has returned the
\* value of the successful invocation.
C15_SucceedsAtK ==
    (\E i \in 1..Len(rCalls) : rCalls[i].ok) =>
        LET k == Len(rCalls)
        IN  /\ rCalls[k].ok
            /\ \A i \in 1..(k - 1) : ~rCalls[i].ok
            /\ k <= rTries
            /\ rState = "returned"
            /\ rOut = rCalls[k].val
            /\ rCalls[k].val = k

\* C15 witness: tries = 3, two failures, the third invocation succeeded and
\* its value was returned.
C15_Witness ==
    /\ rState = "returned"
    /\ rTries = 3
    /\ Len(rCalls) = 3
    /\ ~rCalls[1].ok /\ ~rCalls[2].ok /\ rCalls[3].ok
    /\ rOut = 3

\* the failed invocations after which attempts remained
FailedWithAttemptsLeft ==
    Cardinality({i \in 1..Len(rCalls) : ~rCalls[i].ok /\ rCalls[i].attempt < rTries})

\* C16: withRetry sleeps once after each failed attempt that is not the last
\* one allowed and never otherwise, so tries - 1 times when every attempt
\* fails; without jitter the first delay is baseDelayMs and each later delay
\* is twice the one before.
C16_BackoffSchedule ==
    /\ Len(rSleeps) = FailedWithAttemptsLeft
    /\ (rState = "thrown" /\ rTries >= 1 => Len(rSleeps) = rTries - 1)
    /\ (rState = "sleeping" => ~rCalls[Len(rCalls)].ok /\ rAttempt < rTries)
    /\ (~rJitter =>
          \A a \in 1..Len(rSleeps) :
              rSleeps[a] = IF a = 1 THEN rBaseDelayMs ELSE 2 * rSleeps[a - 1])

\* C16 witness: tries = 3 and baseDelayMs = 300 without jitter: three failures,
\* the sleeps were 300 and 600, and the error was thrown without a third sleep.
C16_Witness ==
    /\ rState = "thrown"
    /\ rTries = 3
    /\ ~rJitter
    /\ Len(rCalls) = 3
    /\ rSleeps = <<300, 600>>

\* fetchViaBrowser is running between chromium.launch and browser.close
InBrowser == sState \in {"navigating", "evaluating", "content", "closing"}

\* C17: once the fast path of a scrapeText call has ended, fetchViaBrowser was
\* called if and only if the fast path threw or gave fewer than 200
\* characters; otherwise scrapeText has returned the fast path's text and no
\* browser is open.
C17_FallbackIff ==
    (sState \notin {"idle", "fastPath"} /\ sUrl # NoUrl) =>
        /\ sFallback <=> (sFast.threw \/ Length(sFast.text) < 200)
        /\ (sState = "launching" \/ InBrowser => sFallback)
        /\ (~sFallback => sState = "returned" /\ sOut = sFast /\ browsers = 0)

\* C17 witness: a first call fell back and launched a browser; the second
\* call returned the fast path's 200 characters without a launch.
C17_Witness ==
    /\ sRequests = 2
    /\ sLaunched = 1
    /\ sState = "returned"
    /\ ~sFallback
    /\ sOut = Got(Text(200, 0))

\* C18 as stated: scrapeText never returns an empty text.
C18_Original == sState = "returned" => Length(sOut.text) > 0

\* C18: scrapeText returns the text of the path it ended on, the empty text
\* included; an empty text comes from the rendering path only, and so does
\* every error of a call with a valid URL; the /scrape route answers 422 for
\* an empty text, 500 for an error and 200 otherwise.
C18_EmptyTextReturned ==
    /\ sState = "returned" =>
          /\ ~sOut.threw
          /\ sOut = IF sFallback THEN sPending ELSE sFast
          /\ (Length(sOut.text) = 0 => sFallback)
    /\ (sState = "thrown" /\ sUrl # NoUrl => sFallback /\ sOut.threw)
    /\ (pc = "scrapeIdle" /\ response \in {"200", "422", "500"} =>
          response = IF sOut.threw THEN "500"
                     ELSE IF Length(sOut.text) = 0 THEN "422" ELSE "200")

\* C18 witness: the rendering path gave the empty text, scrapeText returned
\* it, and the route answered 422.
C18_Witness ==
    /\ pc = "scrapeIdle"
    /\ response = "422"
    /\ sFallback
    /\ sOut = Got(Text(0, 0))
    /\ sLaunched >= 1

\* C19: a browser is open exactly between a resolved chromium.launch and the
\* end of browser.close, never more than one, and none once scrapeText has
\* returned or thrown.
C19_BrowserClosed ==
    /\ browsers \in {0, 1}
    /\ InBrowser <=> browsers = 1
    /\ (sState \in {"returned", "thrown", "idle"} => browsers = 0)
    /\ sLaunched <= sRequests

\* C19 witness: two calls launched a browser each; the second call threw
\* after the launch, and no browser is open.
C19_Witness ==
    /\ sState = "thrown"
    /\ sPending.threw
    /\ sLaunched = 2
    /\ browsers = 0

\* C24: cleaning an address that cleanUrl returned, with the same strip set,
\* gives the same address.
C24_Idempotent == Len(fnResult) = 2 => fnResult[2] = fnResult[1]

\* C24 witness: an address with a run of trailing slashes, a fragment and a
\* tracking parameter was cleaned twice.
C24_Witness ==
    /\ Len(fnResult) = 2
    /\ fnArgs.u.path = <<"/", "d", "/", "/">>
    /\ fnArgs.u.hash
    /\ fnArgs.stripParams = DEFAULT_STRIP_PARAMS
    /\ \E i \in 1..Len(fnArgs.u.query) : fnArgs.u.query[i].k = "gclid"
    /\ fnResult[1] # fnArgs.u

\* the positions of the parameters of `query` whose name is not in stripParams
KeptAt(query, stripParams) == {i \in 1..Len(query) : query[i].k \notin stripParams}

\* the number of kept positions up to i
KeptUpTo(query, stripParams, i) == Cardinality({j \in KeptAt(query, stripParams) : j <= i})

\* cleanUrl's result has no fragment, no parameter named in the strip set, and
\* every other parameter of the input, with its value, in the input's order
QueryCleaned(in, out, stripParams) ==
    /\ ~out.hash
    /\ Len(out.query) = Cardinality(KeptAt(in.query, stripParams))
    /\ \A i \in KeptAt(in.query, stripParams) :
          out.query[KeptUpTo(in.query, stripParams, i)] = in.query[i]
    /\ out.proto = in.proto /\ out.host = in.host

\* C25 as stated: the parameters are cleaned and the path is unchanged.
C25_Original ==
    Len(fnResult) >= 1 =>
        /\ QueryCleaned(fnArgs.u, fnResult[1], fnArgs.stripParams)
        /\ fnResult[1].path = fnArgs.u.path

\* p without the slashes at its end
RECURSIVE WithoutTrailingSlashes(_)
WithoutTrailingSlashes(p) ==
    IF Len(p) > 0 /\ p[Len(p)] = "/" THEN WithoutTrailingSlashes(SubSeq(p, 1, Len(p) - 1))
    ELSE p

\* C25: cleanUrl removes the fragment and every parameter named in the strip
\* set, keeps every other parameter with its value and order, and keeps the
\* path except that a run of slashes at its end becomes a single slash.
C25_StripsTracking ==
    Len(fnResult) >= 1 =>
        /\ QueryCleaned(fnArgs.u, fnResult[1], fnArgs.stripParams)
        /\ fnResult[1].path =
              IF Len(fnArgs.u.path) >= 2
                 /\ SubSeq(fnArgs.u.path, Len(fnArgs.u.path) - 1, Len(fnArgs.u.path)) = <<"/", "/">>
              THEN WithoutTrailingSlashes(fnArgs.u.path) \o <<"/">>
              ELSE fnArgs.u.path

\* C25 witness: of the parameters gclid and q=1 only q=1 is left, and the path
\* /d// became /d/.
C25_Witness ==
    /\ Len(fnResult) >= 1
    /\ fnArgs.stripParams = DEFAULT_STRIP_PARAMS
    /\ fnArgs.u.path = <<"/", "d", "/", "/">>
    /\ fnResult[1].path = <<"/", "d", "/">>
    /\ \E i \in 1..Len(fnArgs.u.query) : fnArgs.u.query[i].k = "gclid"
    /\ \E i \in 1..Len(fnArgs.u.query) : fnArgs.u.query[i] = Param("q", "1")
    /\ fnResult[1].query = <<Param("q", "1")>>

\* the integer part, towards zero, of a number given in tenths
TowardsZero(n10) == IF n10 >= 0 THEN n10 \div 10 ELSE 0 - ((0 - n10) \div 10)

\* what a request value stands for: the default for a missing, non-numeric
\* or infinite value, else its number (null is 0, true is 1) cut to an integer
\* and moved into lo..hi
Clamped(val, lo, hi, default) ==
    IF val.kind \in {"undefined", "str", "inf"} THEN default
    ELSE LET n == IF val.kind = "null" THEN 0 ELSE TowardsZero(val.n10)
         IN  IF n < lo THEN lo ELSE IF n > hi THEN hi ELSE n

\* C23: the configuration a request yields has maxDepth in 0..6, maxPages in
\* 1..1000 and delayMs in 0..5000; a missing or non-finite value gives the
\* default 1, 50 or 200, a finite value is truncated and clamped.
C23_Clamping ==
    Len(fnResult) = 1 =>
        /\ fnResult[1].maxDepth \in 0..6
        /\ fnResult[1].maxPages \in 1..1000
        /\ fnResult[1].delayMs \in 0..5000
        /\ fnResult[1].maxDepth = Clamped(fnArgs.maxDepth, 0, 6, 1)
        /\ fnResult[1].maxPages = Clamped(fnArgs.maxPages, 1, 1000, 50)
        /\ fnResult[1].delayMs = Clamped(fnArgs.delayMs, 0, 5000, 200)

\* C23 witness: maxDepth 2.7 became 2, maxPages 1001 became 1000, and the
\* non-numeric delayMs became 200.
C23_Witness ==
    /\ Len(fnResult) = 1
    /\ fnArgs.maxDepth = Value("number", 27)
    /\ fnArgs.maxPages = Value("number", 10010)
    /\ fnArgs.delayMs = NonNumeric
    /\ fnResult[1] = [maxDepth |-> 2, maxPages |-> 1000, delayMs |-> 200]

\* the source characters two adjacent windows have in common
Shared(w, k) ==
    LET endK == w[k].i + StrLen(w[k].slice)
    IN  IF endK > w[k + 1].i THEN endK - w[k + 1].i ELSE 0

\* C26 as stated: every pair of adjacent windows shares exactly `overlap`
\* characters, except possibly the last pair when the final window is short.
C26_Original ==
    Len(fnResult) >= 1 =>
        LET w == fnResult[1].windows
        IN  \A k \in 1..(Len(w) - 1) :
                (k < Len(w) - 1 \/ StrLen(w[Len(w)].slice) = fnArgs.maxChars)
                    => Shared(w, k) = fnArgs.overlap

\* C26: window k starts at k * (maxChars - overlap) and holds maxChars
\* characters or what is left of the text; two adjacent windows share exactly
\* `overlap` characters when the earlier one is full, and the rest of the text
\* after the later one's start otherwise; with overlap <= maxChars / 2 only
\* the last pair can share fewer.
C26_Overlap ==
    Len(fnResult) >= 1 =>
        LET w == fnResult[1].windows
            L == StrLen(fnArgs.text)
            step == fnArgs.maxChars - fnArgs.overlap
        IN  /\ \A k \in 1..Len(w) :
                   /\ w[k].i = (k - 1) * step
                   /\ w[k].i < L
                   /\ StrLen(w[k].slice) =
                          (IF L - w[k].i < fnArgs.maxChars THEN L - w[k].i ELSE fnArgs.maxChars)
            /\ (Len(w) = 0 <=> L = 0)
            /\ (Len(w) > 0 => w[Len(w)].i + step >= L)
            /\ \A k \in 1..(Len(w) - 1) :
                   /\ StrLen(w[k].slice) = fnArgs.maxChars => Shared(w, k) = fnArgs.overlap
                   /\ StrLen(w[k].slice) < fnArgs.maxChars =>
                          Shared(w, k) = L - w[k + 1].i /\ Shared(w, k) < fnArgs.overlap
                   /\ (2 * fnArgs.overlap <= fnArgs.maxChars /\ k < Len(w) - 1)
                          => Shared(w, k) = fnArgs.overlap

\* C26 witness: chunkText(text, 1200, 150) made three windows, the first two
\* sharing 150 characters and the last two fewer.
C26_Witness ==
    /\ Len(fnResult) >= 1
    /\ fnArgs.maxChars = 1200
    /\ fnArgs.overlap = 150
    /\ Len(fnResult[1].windows) = 3
    /\ Shared(fnResult[1].windows, 1) = 150
    /\ Shared(fnResult[1].windows, 2) < 150

\* a string with a character that is not white space
HasInk(s) == \E k \in 1..Len(s) : s[k].c # " "

\* a string without its leading and trailing white space
Core(s) ==
    LET lead == IF s[1].c = " " THEN s[1].n ELSE 0
        trail == IF s[Len(s)].c = " " THEN s[Len(s)].n ELSE 0
    IN  Slice(s, lead, StrLen(s) - trail)

\* C27: the chunks are the windows that hold more than white space, in
\* order, each without its outer white space, so none is empty; vector i of
\* a page carries chunk index i, the embedding returned for chunk i and the
\* first 800 characters of chunk i.
C27_ChunksAndVectors ==
    /\ Len(fnResult) >= 1 =>
           LET inked == SelectSeq(fnResult[1].windows, LAMBDA x : HasInk(x.slice))
               out == fnResult[1].chunks
           IN  /\ Len(out) = Len(inked)
               /\ \A j \in 1..Len(out) :
                      /\ out[j] # <<>>
                      /\ StrLen(out[j]) > 0
                      /\ out[j][1].c # " "
                      /\ out[j][Len(out[j])].c # " "
                      /\ out[j] = Core(inked[j].slice)
    /\ Len(fnResult) >= 2 =>
           LET out == fnResult[1].chunks
               v == fnResult[2].vectors
           IN  /\ Len(v) = Len(out)
               /\ \A i \in 1..Len(v) :
                      /\ v[i].metadata.chunk = i - 1
                      /\ v[i].values = fnResult[2].embeddings[i]
                      /\ StrLen(v[i].metadata.text) =
                             (IF StrLen(out[i]) < 800 THEN StrLen(out[i]) ELSE 800)
                      /\ v[i].metadata.text = Slice(out[i], 0, StrLen(v[i].metadata.text))

\* C27 witness: chunkText(text, 1200, 150) dropped a window of white space
\* and the page got two vectors, the first with a snippet of 800 characters
\* cut from a longer chunk.
C27_Witness ==
    /\ Len(fnResult) = 2
    /\ Len(fnResult[1].windows) > Len(fnResult[1].chunks)
    /\ Len(fnResult[2].vectors) = 2
    /\ StrLen(fnResult[1].chunks[1]) > 800
    /\ StrLen(fnResult[2].vectors[1].metadata.text) = 800
    /\ fnResult[2].vectors[2].metadata.chunk = 1

\* C21: the ids of the vectors built during one crawl session are pairwise
\* different, whatever failed in between and whatever the clock read.
C21_UniqueIds ==
    \A i \in 1..Len(built) : \A j \in 1..Len(built) : i # j => built[i] # built[j]

\* C21 witness: four vectors of two pages built within the same millisecond,
\* the upsert of the first page having failed.
C21_Witness ==
    /\ Len(built) = 4
    /\ built[1][1] = built[4][1]
    /\ built[1][2] # built[4][2]
    /\ built[1][2] = built[2][2]
    /\ \A e \in store : e.id # built[1]
    /\ \E e \in store : e.id = built[4]

\* a startUrl that is missing, no string, or no absolute http(s) address
BadSeed == startUrl.type # "string" \/ startUrl.url.proto \notin {"http:", "https:"}

\* C22: a request whose startUrl is missing, not a string or not an absolute
\* http(s) address is answered 400 with no fetch, scrape, embedding or upsert.
C22_InvalidInputAborts ==
    (pc # "idle" /\ BadSeed) =>
        /\ pc = "done"
        /\ response = "400"
        /\ fetchLog = <<>>
        /\ inFlight = {}
        /\ built = <<>>
        /\ uCalls = <<>>
        /\ store = {}
        /\ q = <<>>

\* C22 witness: the request with startUrl ["https://a/d"], an array, was answered 400.
C22_Witness ==
    /\ pc = "done"
    /\ startUrl = StartUrl("object", SeedIn)
    /\ response = "400"
    /\ fetchLog = <<>>

\* the frontier holds its tasks in non-decreasing depth order
SortedByDepth(tasks) ==
    \A i \in 1..Len(tasks) : \A j \in i..Len(tasks) : tasks[i].depth <= tasks[j].depth

\* C29: the frontier is a FIFO queue: link expansion only appends, at the
\* tail, tasks one level below the page; tasks leave at the head in
\* non-decreasing depth order; every processed address is processed at the
\* smallest depth at which it was ever enqueued.
C29_BreadthFirst ==
    /\ [](/\ SortedByDepth(q)
          /\ SortedByDepth(fetchLog)
          /\ \A k \in 1..Len(fetchLog) : \A t \in enq :
                 t.url = fetchLog[k].url => fetchLog[k].depth <= t.depth)
    /\ [][/\ (pc = "fetchHtml" /\ q' # q) =>
                /\ Len(q') > Len(q)
                /\ SubSeq(q', 1, Len(q)) = q
                /\ \A i \in (Len(q) + 1)..Len(q') : q'[i].depth = cur.depth + 1
          /\ (pc = "loop" /\ q' # q) =>
                /\ q' = Tail(q)
                /\ q' # <<>> => Head(q).depth <= Head(q').depth]_vars

\* C29 witness: an address was enqueued at depths 1 and 2 and processed at
\* depth 1, after the seed and another page of depth 1.
C29_Witness ==
    /\ Len(fetchLog) = 3
    /\ fetchLog[3].depth = 1
    /\ \E t \in enq : t.url = fetchLog[3].url /\ t.depth = 2

\* the remote calls of a page, in the order of the code
RemoteCalls == <<"fetchHtml", "scrapeText", "embedTexts", "upsertVectors">>

\* C30: at most one remote call of a session is in flight; a page's calls
\* start in the order fetchHtml, scrapeText, embedTexts, upsertVectors, each
\* when the one before it has settled; fetchHtml of the next page starts only
\* when no call is in flight and upsertVectors has returned or thrown.
C30_SingleFlight ==
    /\ [](/\ Cardinality(inFlight) <= 1
          /\ uState # "idle" => inFlight = {"upsertVectors"}
          /\ inFlight = (IF pc \in {RemoteCalls[k] : k \in 1..4} THEN {pc} ELSE {}))
    /\ [][/\ "fetchHtml" \in inFlight' \ inFlight => inFlight = {} /\ uState = "idle"
          /\ \A k \in 2..4 :
                 RemoteCalls[k] \in inFlight' \ inFlight => inFlight = {RemoteCalls[k - 1]}]_vars

\* C30 witness: the fetch of a second page is in flight, alone, after the
\* vectors of the first page were upserted.
C30_Witness ==
    /\ pc = "fetchHtml"
    /\ inFlight = {"fetchHtml"}
    /\ Len(fetchLog) = 2
    /\ crawled = 1
    /\ store # {}

\* C28: when every remote call eventually returns or throws, the crawl
\* eventually answers, with its result unless the startUrl was invalid, and
\* it answers a result only when the frontier is empty or crawled = maxPages.
C28_Terminates ==
    /\ <>(pc = "done" /\ (response = "ok" \/ BadSeed))
    /\ [](response = "ok" => (q = <<>> \/ crawled = maxPages))

\* C28 witness: the crawl returned its result at the page cap with tasks left
\* in the frontier.
C28_Witness ==
    /\ pc = "done"
    /\ response = "ok"
    /\ crawled = maxPages
    /\ Len(q) > 0

\* C32: the upserted value a crawl returns is the number of vectors the
\* session committed to the vector store.
C32_UpsertedIsCommitted ==
    (pc = "done" /\ response = "ok") => upserted = Cardinality(store)

\* C33: every iteration of the loop of chunkText moves the window start
\* forward, whatever maxChars and overlap are, so that the loop ends after at
\* most text.length iterations.
C33_LoopProgresses ==
    /\ [](pc \in {"chunkLoop", "done"} => fnResult[1].iter <= StrLen(fnArgs.text))
    /\ [][pc = "chunkLoop" /\ pc' = "chunkLoop" => fnResult'[1].i > fnResult[1].i]_vars

\* with overlap < maxChars the loop returns what chunkText is defined to return
ChunkLoopAgrees ==
    fnArgs.overlap < fnArgs.maxChars =>
        /\ fnResult[1].iter <= StrLen(fnArgs.text)
        /\ fnResult[1].iter < MaxIter
        /\ pc = "done" =>
               fnResult[1].chunks = chunkText(fnArgs.text, fnArgs.maxChars, fnArgs.overlap)

\* what a session's own steps establish about its crawl state: the page cap,
\* the depth bound, no address fetched twice, and a seen-set and a frontier
\* made of nothing but its own visits and its own discoveries
SessionOk(f) ==
    /\ f.crawled <= f.maxPages
    /\ f.crawled <= Len(f.fetchLog)
    /\ f.upserted <= Len(f.built)
    /\ \A i \in 1..Len(f.fetchLog) : f.fetchLog[i].depth <= f.maxDepth
    /\ \A i, j \in 1..Len(f.fetchLog) : f.fetchLog[i].url = f.fetchLog[j].url => i = j
    /\ f.seen = {f.fetchLog[i].url : i \in 1..Len(f.fetchLog)}
    /\ \A i \in 1..Len(f.q) : f.q[i] \in f.enq

\* C31: with two /ingest-crawl requests interleaved at their awaits, each
\* session keeps its page cap and its depth bound, fetches no address twice,
\* and its seen-set, frontier and counters come from its own steps only.
C31_SessionIsolation == SessionOk(Frame) /\ SessionOk(parked)

\* the first session runs again after the second one has crawled a page, and
\* both are in the middle of their crawls
C31_Witness ==
    /\ active = 1
    /\ pc \in AwaitPoints /\ parked.pc \in AwaitPoints
    /\ crawled >= 1 /\ parked.crawled >= 1
    /\ upserted >= 1 /\ parked.upserted >= 1
    /\ pc # parked.pc

====
